---- MODULE Spec2Model ----
(***************************************************************************)
(* A model of mcp-metatool's proxy / bridge / execution core.              *)
(*                                                                         *)
(*  - the connection manager (internal/proxy: Manager): Start, Stop,       *)
(*    connectServer, discoverTools, GetAllTools, CallTool,                 *)
(*    GetConnectedServers, run by several goroutines under m.mu;           *)
(*  - the execution engine (internal/starlark: ExecuteWithProxy and the    *)
(*    value conversion it uses), run by several concurrent invocations.    *)
(***************************************************************************)
EXTENDS Naturals, Integers, Sequences, FiniteSets, TLC

\* ------------------------------------------------------------------------
\* Bounds of the model
\* ------------------------------------------------------------------------

\* sessions that client.Connect may hand out in one run of the model
MaxConns == 2

\* goroutines that call into the one shared Manager
Threads == {1, 2}

\* config.MCPServers: the configured upstream servers
Servers == {"a", "b"}

\* server names a caller may pass to CallTool ("zz" is not configured)
CallNames == Servers \cup {"zz"}

\* the tool names the upstream server s answers ListTools with
ServerTools(s) == IF s = "a" THEN <<"t1", "t2">> ELSE <<"t1">>

NoThread == 0
Nil == 0
EmptyMap == <<>>

VARIABLES
    \* ---- Manager (one shared instance) ----
    clients,    \* m.clients : server name -> client id
    sessions,   \* m.sessions: server name -> session id (index into conns)
    tools,      \* m.tools   : server name -> slice address
    cancelled,  \* m.ctx is done (m.cancel was called)
    mu,         \* m.mu: [w: the goroutine holding Lock, r: those holding RLock]
    \* ---- objects the manager points to ----
    conns,      \* every *mcp.ClientSession ever returned by client.Connect
    slices,     \* slice address -> sequence of *mcp.Tool addresses
    toolRecs,   \* *mcp.Tool address -> the Tool record
    \* ---- goroutines ----
    pc,         \* where each goroutine is
    arg,        \* CallTool's serverName
    todo,       \* the part of a range loop not visited yet
    cur,        \* connectServer's serverName
    sess,       \* CallTool's session
    ret,        \* what the last finished operation returned
    \* ---- observation ----
    hist,       \* per goroutine: facts about the operation in progress
    panicked    \* a goroutine dereferenced nil

mgrVars == <<clients, sessions, tools, cancelled, mu, conns, slices, toolRecs,
             pc, arg, todo, cur, sess, ret, hist, panicked>>

VARIABLES
    \* ---- execution engine (one record per running ExecuteWithProxy) ----
    epc,        \* where the invocation is: idle, exec, stmt, calling, done, fatal
    ecode,      \* code: the script body (index into the scripts)
    eparams,    \* params
    eproxy,     \* proxyManager
    eid,        \* serial number of the invocation
    emode,      \* which of executeAsProgram / executeAsExpression runs the code
    eip,        \* next statement of the program being executed
    eheap,      \* the lists the script has built, by reference
    ecalls,     \* the calls of proxyManager.CallTool the invocation has made
    eres,       \* what ExecuteWithProxy returned: (*Result, error)
    envs,       \* the StringDicts in memory: address -> name -> binding
    nextInv     \* serial number of the next invocation

engVars == <<epc, ecode, eparams, eproxy, eid, emode, eip, eheap, ecalls, eres,
            envs, nextInv>>

VARIABLES
    \* ---- one value crossing the host / script boundary ----
    cpc,        \* idle, in (a host value to convert), mid (converted), out (back)
    csrc,       \* where the value comes from: the host, or a script's result
    cin,        \* the host value given to GoToStarlarkValue
    cmid,       \* what GoToStarlarkValue returned / the script's result value
    cout        \* what StarlarkToGoValue returned

convVars == <<cpc, csrc, cin, cmid, cout>>

VARIABLES
    \* ---- saved tools (one record per running handleSavedTool) ----
    hpc,        \* where the handler is: idle, validate, run, done
    htool,      \* tool: the saved tool definition (index into the saved tools)
    hargs,      \* args
    hresp       \* the CallToolResult the handler returned

savVars == <<hpc, htool, hargs, hresp>>

VARIABLES
    \* ---- one schema given to Transform ----
    tpc,        \* build (the schema an upstream server declares), done
    tin,        \* schema: the *jsonschema.Schema given to Transform
    tout        \* what Transform returned

schVars == <<tpc, tin, tout>>

VARIABLES
    \* ---- proxied tools (one run of RegisterProxiedTools) ----
    gpc,        \* idle, loop (ranging over allTools), done
    ghide,      \* config.ShouldHideProxiedTools()
    gcfg,       \* cfg.MCPServers: server name -> (serverConfig, exists)
    gtodo,      \* the servers of allTools not visited yet
    greg        \* the tools given to mcp.AddTool

regVars == <<gpc, ghide, gcfg, gtodo, greg>>

vars == <<mgrVars, engVars, convVars, savVars, schVars, regVars>>

\* what an operation of one component leaves alone
notMgrVars == <<engVars, convVars, savVars, schVars, regVars>>
notEngVars == <<mgrVars, convVars, savVars, schVars, regVars>>
notConvVars == <<mgrVars, engVars, savVars, schVars, regVars>>
notSavVars == <<mgrVars, engVars, convVars, schVars, regVars>>
notSchVars == <<mgrVars, engVars, convVars, savVars, regVars>>
notRegVars == <<mgrVars, engVars, convVars, savVars, schVars>>

\* ------------------------------------------------------------------------
\* Helpers
\* ------------------------------------------------------------------------

NoRet == [op |-> "none"]
NoHist == [afterCancel |-> FALSE, attempted |-> {}, failed |-> {}]

\* the slices a goroutine still holds from its last GetAllTools are garbage
\* once it starts its next operation
DropReturned(t) ==
    [a \in {x \in DOMAIN slices : ~(x[1] = "ret" /\ x[2] = t)} |-> slices[a]]

\* a map with key k set to v (Go: m[k] = v)
MapSet(m, k, v) == [x \in (DOMAIN m) \cup {k} |-> IF x = k THEN v ELSE m[x]]

\* sync.RWMutex: Lock needs no holder at all, RLock needs no writer
CanAcquire(kind) ==
    IF kind = "W" THEN mu.w = NoThread /\ mu.r = {} ELSE mu.w = NoThread

Acquire(t, kind) ==
    IF kind = "W" THEN [mu EXCEPT !.w = t] ELSE [mu EXCEPT !.r = @ \cup {t}]

Release(t, kind) ==
    IF kind = "W" THEN [mu EXCEPT !.w = NoThread] ELSE [mu EXCEPT !.r = @ \ {t}]

\* a session is live while nobody closed it and its context is not done
Live(c) == conns[c].closes = 0 /\ ~cancelled

\* ------------------------------------------------------------------------
\* Values on the two sides of the host / script boundary
\* ------------------------------------------------------------------------

\* Go values (interface{}): what params and results are made of
HNil == [k |-> "nil"]
HBool(b) == [k |-> "bool", v |-> b]
HInt(n) == [k |-> "int", v |-> n]
HInt64(n) == [k |-> "int64", v |-> n]
HFloat(x) == [k |-> "float64", v |-> x]
HStr(x) == [k |-> "string", v |-> x]
HSlice(q) == [k |-> "slice", v |-> q]
HMap(f) == [k |-> "map", v |-> f]
HChan == [k |-> "chan"]

\* Starlark values. An int too large for int64 carries wide = TRUE; a dict is
\* its sequence of <<key, value>> entries
SNone == [k |-> "none"]
SBool(b) == [k |-> "bool", v |-> b]
SInt(n) == [k |-> "int", v |-> n, wide |-> FALSE]
SWideInt(n) == [k |-> "int", v |-> n, wide |-> TRUE]
SFloat(x) == [k |-> "float", v |-> x]
SStr(x) == [k |-> "string", v |-> x]
SList(q) == [k |-> "list", v |-> q]
STuple(q) == [k |-> "tuple", v |-> q]
SDict(q) == [k |-> "dict", v |-> q]
SBuiltin(n) == [k |-> "builtin", v |-> n]
SModule(n) == [k |-> "module", v |-> n]
SNamespace(server, toolNames) ==
    [k |-> "server_namespace", server |-> server, tools |-> toolNames]

\* the elements of a finite set in some order (Go ranges over a map in an
\* unspecified order)
RECURSIVE SeqOf(_)
SeqOf(S) ==
    IF S = {} THEN <<>>
    ELSE LET x == CHOOSE y \in S : TRUE IN <<x>> \o SeqOf(S \ {x})

\* what a conversion returns: (value, nil), (nil, error), or no return at all
\* when its recursion never ends and the goroutine's stack runs out
Invalid == [k |-> "invalid"]
Ok(v) == [ok |-> TRUE, val |-> v, err |-> "", overflow |-> FALSE]
Err(e) == [ok |-> FALSE, val |-> Invalid, err |-> e, overflow |-> FALSE]
StackOverflow == [ok |-> FALSE, val |-> Invalid, err |-> "", overflow |-> TRUE]

\* the first failure among the conversions of the items, if any
FirstFailure(items, order) ==
    LET bad == {i \in DOMAIN order : ~items[order[i]].ok} IN
       items[order[CHOOSE i \in bad : \A j \in bad : i <= j]]

\* GoToStarlarkValue
RECURSIVE GoToStarlarkValue(_)
GoToStarlarkValue(v) ==
    CASE v.k = "nil" -> Ok(SNone)
      [] v.k = "bool" -> Ok(SBool(v.v))
      [] v.k = "int" -> Ok(SInt(v.v))
      [] v.k = "int64" -> Ok(SInt(v.v))
      [] v.k = "float64" -> Ok(SFloat(v.v))
      [] v.k = "string" -> Ok(SStr(v.v))
      [] v.k = "slice" ->
            LET items == [i \in DOMAIN v.v |-> GoToStarlarkValue(v.v[i])] IN
               IF \E i \in DOMAIN items : ~items[i].ok
                  THEN FirstFailure(items, [i \in DOMAIN items |-> i])
                  ELSE Ok(SList([i \in DOMAIN items |-> items[i].val]))
      [] v.k = "map" ->
            LET keys == SeqOf(DOMAIN v.v)
                items == [key \in DOMAIN v.v |-> GoToStarlarkValue(v.v[key])]
            IN IF \E key \in DOMAIN items : ~items[key].ok
                  THEN FirstFailure(items, keys)
                  ELSE Ok(SDict([i \in DOMAIN keys |->
                                   <<SStr(keys[i]), items[keys[i]].val>>]))
      [] OTHER -> Err("unsupported type: " \o v.k)

\* s, t, ... joined with ", "
RECURSIVE Joined(_)
Joined(q) ==
    IF q = <<>> THEN ""
    ELSE IF Len(q) = 1 THEN q[1]
    ELSE q[1] \o ", " \o Joined(Tail(q))

\* val.String() of a Starlark value that has no conversion of its own, and
\* of the elements of a tuple
RECURSIVE StarlarkString(_)
StarlarkString(v) ==
    CASE v.k = "int" -> ToString(v.v)
      [] v.k = "none" -> "None"
      [] v.k = "bool" -> IF v.v THEN "True" ELSE "False"
      [] v.k = "string" -> "\"" \o v.v \o "\""
      [] v.k = "tuple" ->
            IF Len(v.v) = 1 THEN "(" \o StarlarkString(v.v[1]) \o ",)"
            ELSE "(" \o Joined([j \in DOMAIN v.v |-> StarlarkString(v.v[j])]) \o ")"
      [] v.k = "builtin" -> "<built-in function " \o v.v \o ">"
      [] v.k = "module" -> "<module " \o v.v \o ">"
      [] v.k = "server_namespace" -> "<" \o v.server \o " server namespace>"
      [] OTHER -> "<" \o v.k \o ">"

\* the string-keyed entries of a dict, a later entry for a key replacing an
\* earlier one
StringKeysNone(q) == {}
StringKeys(q) == {q[i][1].v : i \in {j \in DOMAIN q : q[j][1].k = "string"}}
LastIndex(q, key) ==
    CHOOSE i \in DOMAIN q :
       /\ q[i][1].k = "string" /\ q[i][1].v = key
       /\ \A j \in DOMAIN q : (q[j][1].k = "string" /\ q[j][1].v = key) => j <= i

\* a *starlark.List that the script holds by reference: cell a of the
\* invocation's heap
SListRef(a) == [k |-> "listref", a |-> a]

\* StarlarkToGoValue. heap holds the lists the script built; path is the set
\* of heap lists whose conversion is in progress: meeting one of them again
\* means the recursion, which keeps no record of what it has visited, never
\* ends
RECURSIVE StarlarkToGoValue(_, _, _)
StarlarkToGoValue(heap, v, path) ==
    CASE v.k = "none" -> Ok(HNil)
      [] v.k = "bool" -> Ok(HBool(v.v))
      [] v.k = "int" -> IF ~v.wide THEN Ok(HInt64(v.v)) ELSE Ok(HStr(StarlarkString(v)))
      [] v.k = "float" -> Ok(HFloat(v.v))
      [] v.k = "string" -> Ok(HStr(v.v))
      [] v.k = "list" ->
            LET items == [i \in DOMAIN v.v |-> StarlarkToGoValue(heap, v.v[i], path)] IN
               IF \E i \in DOMAIN items : ~items[i].ok
                  THEN FirstFailure(items, [i \in DOMAIN items |-> i])
                  ELSE Ok(HSlice([i \in DOMAIN items |-> items[i].val]))
      [] v.k = "listref" ->
            IF v.a \in path THEN StackOverflow
            ELSE LET cell == heap[v.a]
                     items == [i \in DOMAIN cell |->
                                 StarlarkToGoValue(heap, cell[i], path \cup {v.a})]
                 IN IF \E i \in DOMAIN items : ~items[i].ok
                       THEN FirstFailure(items, [i \in DOMAIN items |-> i])
                       ELSE Ok(HSlice([i \in DOMAIN items |-> items[i].val]))
      [] v.k = "dict" ->
            LET keys == SeqOf(StringKeys(v.v))
                items == [key \in StringKeys(v.v) |->
                            StarlarkToGoValue(heap, v.v[LastIndex(v.v, key)][2], path)]
            IN IF \E key \in DOMAIN items : ~items[key].ok
                  THEN FirstFailure(items, keys)
                  ELSE Ok(HMap([key \in DOMAIN items |-> items[key].val]))
      [] OTHER -> Ok(HStr(StarlarkString(v)))

\* ------------------------------------------------------------------------
\* Script bodies
\* ------------------------------------------------------------------------

\* expressions and statements of the scripts
Lit(v) == [k |-> "lit", v |-> v]
Name(n) == [k |-> "name", n |-> n]
FloorDiv(x, y) == [k |-> "floordiv", x |-> x, y |-> y]
NewList == [k |-> "list"]
ToolCallWith(ns, tool, pos, kw) ==
    [k |-> "call", ns |-> ns, tool |-> tool, pos |-> pos, kw |-> kw]
ToolCall(ns, tool) == ToolCallWith(ns, tool, <<>>, <<>>)
Assign(n, x) == [k |-> "assign", n |-> n, x |-> x]
AppendTo(n, x) == [k |-> "append", n |-> n, x |-> x]
ExprStmt(x) == [k |-> "expr", n |-> "", x |-> x]

\* what the parser makes of a body: a list of statements (read as a file), one
\* expression (read as an expression), or a syntax error
ParsedFile(stmts) == [ok |-> TRUE, stmts |-> stmts, err |-> ""]
ParsedExpr(x) == [ok |-> TRUE, x |-> x, err |-> ""]
FileSyntaxError(e) == [ok |-> FALSE, stmts |-> <<>>, err |-> e]
ExprSyntaxError(e) == [ok |-> FALSE, x |-> Lit(SNone), err |-> e]

\* 7
SevenText ==
    <<"7">>

\* x
NameText ==
    <<"x">>

\* params
ParamsText ==
    <<"p", "a", "r", "a", "m", "s">>

\* x = 1\ny = x
TwoGlobalsText ==
    <<"x", " ", "=", " ", "1", "\n", "y", " ", "=", " ", "x">>

\* x = 1
OneLineAssignText ==
    <<"x", " ", "=", " ", "1">>

\* result = 1 // 0\n
DivZeroText ==
    <<"r", "e", "s", "u", "l", "t", " ", "=", " ", "1", " ", "/",
              "/", " ", "0", "\n">>

\* result = a.t1()\n
ToolCallText ==
    <<"r", "e", "s", "u", "l", "t", " ", "=", " ", "a", ".", "t",
              "1", "(", ")", "\n">>

\* x = (\n
UnclosedText ==
    <<"x", " ", "=", " ", "(", "\n">>

\* x = []\nx.append(x)\nresult = x
SelfListText ==
    <<"x", " ", "=", " ", "[", "]", "\n", "x", ".", "a", "p", "p",
              "e", "n", "d", "(", "x", ")", "\n", "r", "e", "s", "u",
              "l", "t", " ", "=", " ", "x">>

\* x = []\nx.append(7)\nresult = x
ListText ==
    <<"x", " ", "=", " ", "[", "]", "\n", "x", ".", "a", "p", "p",
              "e", "n", "d", "(", "7", ")", "\n", "r", "e", "s", "u",
              "l", "t", " ", "=", " ", "x">>

\* len = 1\ny = len
ShadowText ==
    <<"l", "e", "n", " ", "=", " ", "1", "\n", "y", " ", "=", " ",
              "l", "e", "n">>
\* "return"
QuotedReturnText ==
    <<"\"", "r", "e", "t", "u", "r", "n", "\"">>

\* params = 5\nz = params
OwnParamsText ==
    <<"p", "a", "r", "a", "m", "s", " ", "=", " ", "5", "\n", "z", " ", "=",
      " ", "p", "a", "r", "a", "m", "s">>

\* result = a_b.t1()\n
NormalizedCallText ==
    <<"r", "e", "s", "u", "l", "t", " ", "=", " ", "a", "_", "b",
      ".", "t", "1", "(", ")", "\n">>

\* result = c.t1()\n
PlainCallText ==
    <<"r", "e", "s", "u", "l", "t", " ", "=", " ", "c", ".", "t",
      "1", "(", ")", "\n">>

\* result = c.zz()\n
UnknownToolText ==
    <<"r", "e", "s", "u", "l", "t", " ", "=", " ", "c", ".", "z",
      "z", "(", ")", "\n">>

\* result = c.t1({"q": 1})\n
DictCallText ==
    <<"r", "e", "s", "u", "l", "t", " ", "=", " ", "c", ".", "t",
      "1", "(", "{", "\"", "q", "\"", ":", " ", "1", "}", ")", "\n">>

\* result = c.t1(q = 1, r = 2)\n
KeywordCallText ==
    <<"r", "e", "s", "u", "l", "t", " ", "=", " ", "c", ".", "t",
      "1", "(", "q", " ", "=", " ", "1", ",", " ", "r", " ", "=",
      " ", "2", ")", "\n">>

\* result = c.t1(1, 2)\n
TwoPositionalText ==
    <<"r", "e", "s", "u", "l", "t", " ", "=", " ", "c", ".", "t",
      "1", "(", "1", ",", " ", "2", ")", "\n">>

\* result = c.t1({"q": 1}, r = 2)\n
MixedCallText ==
    <<"r", "e", "s", "u", "l", "t", " ", "=", " ", "c", ".", "t",
      "1", "(", "{", "\"", "q", "\"", ":", " ", "1", "}", ",", " ",
      "r", " ", "=", " ", "2", ")", "\n">>

\* result = c.t1(5)\n
NonDictCallText ==
    <<"r", "e", "s", "u", "l", "t", " ", "=", " ", "c", ".", "t",
      "1", "(", "5", ")", "\n">>

\* u = c.t1()\nv = c.t2()\n
TwoCallsText ==
    <<"u", " ", "=", " ", "c", ".", "t", "1", "(", ")", "\n", "v",
      " ", "=", " ", "c", ".", "t", "2", "(", ")", "\n">>

\* a literal {"q": 1}
QDict == SDict(<< <<SStr("q"), SInt(1)>> >>)

\* the bodies that call through the bridge
BridgeScriptIds == 14 .. 22
BridgeScript(c) ==
    CASE c = 14 -> [text |-> NormalizedCallText,
                    file |-> ParsedFile(<<Assign("result", ToolCall("a_b", "t1"))>>),
                    expr |-> ExprSyntaxError("got '=', want EOF")]
      [] c = 15 -> [text |-> PlainCallText,
                    file |-> ParsedFile(<<Assign("result", ToolCall("c", "t1"))>>),
                    expr |-> ExprSyntaxError("got '=', want EOF")]
      [] c = 16 -> [text |-> UnknownToolText,
                    file |-> ParsedFile(<<Assign("result", ToolCall("c", "zz"))>>),
                    expr |-> ExprSyntaxError("got '=', want EOF")]
      [] c = 17 -> [text |-> DictCallText,
                    file |-> ParsedFile(<<Assign("result",
                                ToolCallWith("c", "t1", <<Lit(QDict)>>, <<>>))>>),
                    expr |-> ExprSyntaxError("got '=', want EOF")]
      [] c = 18 -> [text |-> KeywordCallText,
                    file |-> ParsedFile(<<Assign("result",
                                ToolCallWith("c", "t1", <<>>,
                                             << <<"q", Lit(SInt(1))>>,
                                                <<"r", Lit(SInt(2))>> >>))>>),
                    expr |-> ExprSyntaxError("got '=', want EOF")]
      [] c = 19 -> [text |-> TwoPositionalText,
                    file |-> ParsedFile(<<Assign("result",
                                ToolCallWith("c", "t1", <<Lit(SInt(1)), Lit(SInt(2))>>,
                                             <<>>))>>),
                    expr |-> ExprSyntaxError("got '=', want EOF")]
      [] c = 20 -> [text |-> MixedCallText,
                    file |-> ParsedFile(<<Assign("result",
                                ToolCallWith("c", "t1", <<Lit(QDict)>>,
                                             << <<"r", Lit(SInt(2))>> >>))>>),
                    expr |-> ExprSyntaxError("got '=', want EOF")]
      [] c = 21 -> [text |-> NonDictCallText,
                    file |-> ParsedFile(<<Assign("result",
                                ToolCallWith("c", "t1", <<Lit(SInt(5))>>, <<>>))>>),
                    expr |-> ExprSyntaxError("got '=', want EOF")]
      [] OTHER -> [text |-> TwoCallsText,
                   file |-> ParsedFile(<<Assign("u", ToolCall("c", "t1")),
                                         Assign("v", ToolCall("c", "t2"))>>),
                   expr |-> ExprSyntaxError("got '=', want EOF")]

\* the script bodies a caller passes as code
ScriptIds == 1 .. 13
Script(c) ==
    CASE c \in BridgeScriptIds -> BridgeScript(c)
      [] c = 1 -> [text |-> SevenText,
                   file |-> ParsedFile(<<ExprStmt(Lit(SInt(7)))>>),
                   expr |-> ParsedExpr(Lit(SInt(7)))]
      [] c = 2 -> [text |-> NameText,
                   file |-> ParsedFile(<<ExprStmt(Name("x"))>>),
                   expr |-> ParsedExpr(Name("x"))]
      [] c = 3 -> [text |-> ParamsText,
                   file |-> ParsedFile(<<ExprStmt(Name("params"))>>),
                   expr |-> ParsedExpr(Name("params"))]
      [] c = 4 -> [text |-> TwoGlobalsText,
                   file |-> ParsedFile(<<Assign("x", Lit(SInt(1))),
                                         Assign("y", Name("x"))>>),
                   expr |-> ExprSyntaxError("got '=', want EOF")]
      [] c = 5 -> [text |-> OneLineAssignText,
                   file |-> ParsedFile(<<Assign("x", Lit(SInt(1)))>>),
                   expr |-> ExprSyntaxError("got '=', want EOF")]
      [] c = 6 -> [text |-> DivZeroText,
                   file |-> ParsedFile(<<Assign("result", FloorDiv(1, 0))>>),
                   expr |-> ExprSyntaxError("got '=', want EOF")]
      [] c = 7 -> [text |-> ToolCallText,
                   file |-> ParsedFile(<<Assign("result", ToolCall("a", "t1"))>>),
                   expr |-> ExprSyntaxError("got '=', want EOF")]
      [] c = 8 -> [text |-> UnclosedText,
                   file |-> FileSyntaxError("got end of file, want ')'"),
                   expr |-> ExprSyntaxError("got '=', want EOF")]
      [] c = 9 -> [text |-> SelfListText,
                   file |-> ParsedFile(<<Assign("x", NewList),
                                         AppendTo("x", Name("x")),
                                         Assign("result", Name("x"))>>),
                   expr |-> ExprSyntaxError("got '=', want EOF")]
      [] c = 10 -> [text |-> ListText,
                    file |-> ParsedFile(<<Assign("x", NewList),
                                          AppendTo("x", Lit(SInt(7))),
                                          Assign("result", Name("x"))>>),
                    expr |-> ExprSyntaxError("got '=', want EOF")]
      [] c = 11 -> [text |-> ShadowText,
                    file |-> ParsedFile(<<Assign("len", Lit(SInt(1))),
                                          Assign("y", Name("len"))>>),
                    expr |-> ExprSyntaxError("got '=', want EOF")]
      [] c = 12 -> [text |-> QuotedReturnText,
                    file |-> ParsedFile(<<ExprStmt(Lit(SStr("return")))>>),
                    expr |-> ParsedExpr(Lit(SStr("return")))]
      [] OTHER -> [text |-> OwnParamsText,
                   file |-> ParsedFile(<<Assign("params", Lit(SInt(5))),
                                         Assign("z", Name("params"))>>),
                   expr |-> ExprSyntaxError("got '=', want EOF")]

\* the params a caller passes: nil, a map of supported values, a map holding
\* a value of a type GoToStarlarkValue has no case for
NilParams == HNil
ParamIds == 1 .. 3
Params(p) ==
    CASE p = 1 -> NilParams
      [] p = 2 -> HMap([n |-> HInt(1)])
      [] p = 3 -> HMap([c |-> HChan])
      [] p = 4 -> HMap([n |-> HStr("x")])
      [] OTHER -> HMap(EmptyMap)

\* the proxyManager a caller passes: nil, or one whose GetAllTools returns
\* this map from server name to tool names
NilProxy == [nil |-> TRUE, tools |-> EmptyMap]
ProxyIds == 1 .. 2
Proxy(x) ==
    CASE x = 1 -> NilProxy
      [] x = 2 -> [nil |-> FALSE, tools |-> [a |-> <<"t1", "t2">>]]
      [] x = 3 -> [nil |-> FALSE,
                   tools |-> ("a-b" :> <<"t1">>) @@ ("c" :> <<"t1", "t2">>)
                                @@ ("e" :> <<>>)]
      [] x = 4 -> [nil |-> FALSE,
                   tools |-> ("a-b" :> <<"t2">>) @@ ("a_b" :> <<"t1">>)]
      [] OTHER -> [nil |-> FALSE,
                   tools |-> ("params" :> <<"t1">>) @@ ("json" :> <<"t1">>)
                                @@ ("len" :> <<"t1">>)]

\* the proxyManager of the invocations that call through the bridge: servers
\* "a-b" (one tool), "c" (two tools), "e" (no tool)
BridgeProxyIds == {3}

\* how a proxied call can end: proxyManager.CallTool returns a result or an error
CallOutcomes == {"result", "error"}

\* ------------------------------------------------------------------------
\* The engine's memory
\* ------------------------------------------------------------------------

\* concurrent callers of ExecuteWithProxy
Slots == {1, 2}

\* invocations in one run of the model
MaxInvocations == 3

\* a binding of a StringDict: the value, and the invocation that made the value
\* (0: made at package initialisation, shared by all invocations)
Shared == 0
Binding(v, by) == [val |-> v, by |-> by]

\* starlark.Universe (a part of it), the one package-level dict of built-ins
UniverseNames == {"None", "True", "False", "len"}
UniverseValue(n) ==
    CASE n = "None" -> SNone
      [] n = "True" -> SBool(TRUE)
      [] n = "False" -> SBool(FALSE)
      [] OTHER -> SBuiltin(n)
Universe == [n \in UniverseNames |-> Binding(UniverseValue(n), Shared)]

\* time.Module, math.Module, json.Module: package-level module values
ModuleNames == {"time", "math", "json"}

\* where the dicts live: Universe, the predeclared dict that ExecuteWithProxy
\* makes, the globals dict that ExecFileOptions makes
UniverseAddr == 0
PredeclaredAlias(id) == UniverseAddr
PredeclaredAddr(id) == 2 * id - 1
GlobalsAddr(id) == 2 * id

EnvAt(m, a) == IF a \in DOMAIN m THEN m[a] ELSE EmptyMap

\* (*Result, error) as ExecuteWithProxy returns it
NoResult == [result |-> HNil, error |-> "", err |-> "nil"]

EngInit ==
    /\ epc = [i \in Slots |-> "idle"]
    /\ ecode = [i \in Slots |-> 1]
    /\ eparams = [i \in Slots |-> 1]
    /\ eproxy = [i \in Slots |-> 1]
    /\ eid = [i \in Slots |-> 0]
    /\ emode = [i \in Slots |-> ""]
    /\ eip = [i \in Slots |-> 0]
    /\ eheap = [i \in Slots |-> <<>>]
    /\ ecalls = [i \in Slots |-> <<>>]
    /\ eres = [i \in Slots |-> NoResult]
    /\ envs = [a \in {UniverseAddr} |-> Universe]
    /\ nextInv = 1

\* ------------------------------------------------------------------------
\* NewManager
\* ------------------------------------------------------------------------

MgrInit ==
    /\ clients = EmptyMap
    /\ sessions = EmptyMap
    /\ tools = EmptyMap
    /\ cancelled = FALSE
    /\ mu = [w |-> NoThread, r |-> {}]
    /\ conns = <<>>
    /\ slices = EmptyMap
    /\ toolRecs = EmptyMap
    /\ pc = [t \in Threads |-> "idle"]
    /\ arg = [t \in Threads |-> ""]
    /\ todo = [t \in Threads |-> {}]
    /\ cur = [t \in Threads |-> ""]
    /\ sess = [t \in Threads |-> Nil]
    /\ ret = [t \in Threads |-> NoRet]
    /\ hist = [t \in Threads |-> NoHist]
    /\ panicked = FALSE

ConvInit ==
    /\ cpc = "idle"
    /\ csrc = "host"
    /\ cin = HNil
    /\ cmid = Ok(SNone)
    /\ cout = Ok(HNil)

SavInit ==
    /\ hpc = [i \in Slots |-> "idle"]
    /\ htool = [i \in Slots |-> 1]
    /\ hargs = [i \in Slots |-> 1]
    /\ hresp = [i \in Slots |-> ""]

SchInit ==
    /\ tpc = "build"
    /\ tin = <<>>
    /\ tout = <<>>

\* a server's entry of cfg.MCPServers, or the zero value and exists = false
ServerConfig(hidden, allowed, hiddenTools) ==
    [Exists |-> TRUE, Hidden |-> hidden, AllowedTools |-> allowed,
     HiddenTools |-> hiddenTools]
NoServerConfig ==
    [Exists |-> FALSE, Hidden |-> FALSE, AllowedTools |-> <<>>, HiddenTools |-> <<>>]

\* the servers GetAllTools reports to RegisterProxiedTools, and their tools
RegTools ==
    ("gh" :> <<"create_issue", "list_repos", "get_user_info", "admin_delete">>)
    @@ ("a" :> <<"b__c", "t1">>)
    @@ ("a__b" :> <<"c">>)
    @@ ("a-b" :> <<"t1">>)
RegServers == DOMAIN RegTools

RegInit ==
    /\ gpc = "idle"
    /\ ghide = FALSE
    /\ gcfg = [s \in RegServers |-> NoServerConfig]
    /\ gtodo = {}
    /\ greg = {}

Init == MgrInit /\ EngInit /\ ConvInit /\ SavInit /\ SchInit /\ RegInit

\* ------------------------------------------------------------------------
\* Manager.Start
\* ------------------------------------------------------------------------

\* the lock Start takes: m.mu.Lock()
StartLockKindRead == "R"
StartLockKind == "W"

\* what is left of Start's loop after connectServer failed: continue
StartAbortLoop(rest) == {}
StartAfterFailure(rest) == rest

\* the context connectServer launches and handshakes under: m.ctx
ConnectCtxDone == cancelled

\* the error Start returns
StartError(failed) == "nil"

StartLock(t) ==
    /\ pc[t] = "idle"
    /\ CanAcquire(StartLockKind)
    /\ mu' = Acquire(t, StartLockKind)
    /\ todo' = [todo EXCEPT ![t] = Servers]
    /\ pc' = [pc EXCEPT ![t] = "start_loop"]
    /\ ret' = [ret EXCEPT ![t] = NoRet]
    /\ hist' = [hist EXCEPT ![t] = NoHist]
    /\ slices' = DropReturned(t)
    /\ UNCHANGED notMgrVars
    /\ UNCHANGED <<clients, sessions, tools, cancelled, conns, toolRecs,
                   arg, cur, sess, panicked>>

\* the range loop picks the next server and calls connectServer, which
\* builds the command and blocks in client.Connect
StartNext(t) ==
    /\ pc[t] = "start_loop"
    /\ \E s \in todo[t] :
          /\ cur' = [cur EXCEPT ![t] = s]
          /\ todo' = [todo EXCEPT ![t] = @ \ {s}]
          /\ hist' = [hist EXCEPT ![t].attempted = @ \cup {s}]
    /\ pc' = [pc EXCEPT ![t] = "start_connecting"]
    /\ UNCHANGED notMgrVars
    /\ UNCHANGED <<clients, sessions, tools, cancelled, mu, conns, slices,
                   toolRecs, arg, sess, ret, panicked>>

\* discoverTools when session.ListTools answered:
\* m.tools[serverName] = result.Tools (a new slice of new Tool records)
DiscoveredRecs(s) ==
    toolRecs \o [i \in 1..Len(ServerTools(s)) |-> [name |-> ServerTools(s)[i]]]

DiscoveredSlice(s) ==
    [i \in 1..Len(ServerTools(s)) |-> Len(toolRecs) + i]

\* client.Connect returned a session: connectServer stores client and
\* session and calls discoverTools, whose failure is only logged
HandshakeOk(t) ==
    /\ pc[t] = "start_connecting"
    /\ ~ConnectCtxDone
    /\ Len(conns) < MaxConns
    /\ LET c == Len(conns) + 1
           addr == <<"conn", c, "">>
       IN /\ conns' = Append(conns, [server |-> cur[t], closes |-> 0])
          /\ clients' = MapSet(clients, cur[t], c)
          /\ sessions' = MapSet(sessions, cur[t], c)
          /\ \/ /\ toolRecs' = DiscoveredRecs(cur[t])
                /\ slices' = MapSet(slices, addr, DiscoveredSlice(cur[t]))
                /\ tools' = MapSet(tools, cur[t], addr)
             \/ UNCHANGED <<toolRecs, slices, tools>>
    /\ pc' = [pc EXCEPT ![t] = "start_loop"]
    /\ UNCHANGED notMgrVars
    /\ UNCHANGED <<cancelled, mu, arg, todo, cur, sess, ret, hist, panicked>>

\* client.Connect returned an error (at once when m.ctx is done):
\* connectServer returns it, Start logs it and continues
HandshakeFail(t) ==
    /\ pc[t] = "start_connecting"
    /\ hist' = [hist EXCEPT ![t].failed = @ \cup {cur[t]}]
    /\ todo' = [todo EXCEPT ![t] = StartAfterFailure(@)]
    /\ pc' = [pc EXCEPT ![t] = "start_loop"]
    /\ UNCHANGED notMgrVars
    /\ UNCHANGED <<clients, sessions, tools, cancelled, mu, conns, slices,
                   toolRecs, arg, cur, sess, ret, panicked>>

\* the loop is over: return nil, and the deferred Unlock runs
StartReturn(t) ==
    /\ pc[t] = "start_loop"
    /\ todo[t] = {}
    /\ mu' = Release(t, StartLockKind)
    /\ ret' = [ret EXCEPT ![t] = [op |-> "Start", err |-> StartError(hist[t].failed)]]
    /\ pc' = [pc EXCEPT ![t] = "idle"]
    /\ cur' = [cur EXCEPT ![t] = ""]
    /\ hist' = [hist EXCEPT ![t] = NoHist]
    /\ UNCHANGED notMgrVars
    /\ UNCHANGED <<clients, sessions, tools, cancelled, conns, slices, toolRecs,
                   arg, todo, sess, panicked>>

\* ------------------------------------------------------------------------
\* Manager.Stop
\* ------------------------------------------------------------------------

\* m.cancel(): the context is done from here on
StopSkipCancel(c) == c
StopCancelCtx(c) == TRUE

\* m.sessions = make(map[string]*mcp.ClientSession)
StopKeepSessions(m) == m
StopClearSessions(m) == EmptyMap

\* m.tools = make(map[string][]*mcp.Tool)
StopKeepTools(m) == m
StopClearTools(m) == EmptyMap

\* Stop was called and is about to take the lock
StopCall(t) ==
    /\ pc[t] = "idle"
    /\ pc' = [pc EXCEPT ![t] = "stop_entry"]
    /\ ret' = [ret EXCEPT ![t] = NoRet]
    /\ slices' = DropReturned(t)
    /\ UNCHANGED notMgrVars
    /\ UNCHANGED <<clients, sessions, tools, cancelled, mu, conns, toolRecs,
                   arg, todo, cur, sess, hist, panicked>>

\* m.mu.Lock(); m.cancel(); and the range over m.sessions begins
StopLock(t) ==
    /\ pc[t] = "stop_entry"
    /\ CanAcquire("W")
    /\ mu' = Acquire(t, "W")
    /\ cancelled' = StopCancelCtx(cancelled)
    /\ todo' = [todo EXCEPT ![t] = DOMAIN sessions]
    /\ pc' = [pc EXCEPT ![t] = "stop_closing"]
    /\ UNCHANGED notMgrVars
    /\ UNCHANGED <<clients, sessions, tools, conns, slices, toolRecs,
                   arg, cur, sess, ret, hist, panicked>>

\* one iteration of the loop over m.sessions: session.Close()
StopClose(t) ==
    /\ pc[t] = "stop_closing"
    /\ \E s \in todo[t] :
          /\ todo' = [todo EXCEPT ![t] = @ \ {s}]
          /\ IF sessions[s] = Nil
                THEN /\ panicked' = TRUE
                     /\ conns' = conns
                ELSE /\ panicked' = panicked
                     /\ conns' = [conns EXCEPT ![sessions[s]].closes =
                                     IF @ < 2 THEN @ + 1 ELSE @]
    /\ UNCHANGED notMgrVars
    /\ UNCHANGED <<clients, sessions, tools, cancelled, mu, slices, toolRecs,
                   pc, arg, cur, sess, ret, hist>>

\* the maps are replaced by empty ones and the deferred Unlock runs
StopReturn(t) ==
    /\ pc[t] = "stop_closing"
    /\ todo[t] = {}
    /\ clients' = EmptyMap
    /\ sessions' = StopClearSessions(sessions)
    /\ tools' = StopClearTools(tools)
    /\ mu' = Release(t, "W")
    /\ ret' = [ret EXCEPT ![t] = [op |-> "Stop"]]
    /\ pc' = [pc EXCEPT ![t] = "idle"]
    /\ UNCHANGED notMgrVars
    /\ UNCHANGED <<cancelled, conns, slices, toolRecs, arg, todo, cur, sess,
                   hist, panicked>>

\* ------------------------------------------------------------------------
\* Manager.CallTool
\* ------------------------------------------------------------------------

\* session, exists := m.sessions[serverName]
CallToolExistsAlways(m, s) == TRUE
CallToolExists(m, s) == s \in DOMAIN m

\* the context session.CallTool waits under: m.ctx
CallCtxBackground(c) == FALSE
CallCtxDone(c) == c

\* CallTool(serverName, ...) was called and is about to take the read lock
CallToolCall(t) ==
    /\ pc[t] = "idle"
    /\ \E s \in CallNames : arg' = [arg EXCEPT ![t] = s]
    /\ pc' = [pc EXCEPT ![t] = "call_entry"]
    /\ ret' = [ret EXCEPT ![t] = NoRet]
    /\ hist' = [hist EXCEPT ![t] = [NoHist EXCEPT !.afterCancel = cancelled]]
    /\ slices' = DropReturned(t)
    /\ UNCHANGED notMgrVars
    /\ UNCHANGED <<clients, sessions, tools, cancelled, mu, conns, toolRecs,
                   todo, cur, sess, panicked>>

CallToolRLock(t) ==
    /\ pc[t] = "call_entry"
    /\ CanAcquire("R")
    /\ mu' = Acquire(t, "R")
    /\ pc' = [pc EXCEPT ![t] = "call_read"]
    /\ UNCHANGED notMgrVars
    /\ UNCHANGED <<clients, sessions, tools, cancelled, conns, slices, toolRecs,
                   arg, todo, cur, sess, ret, hist, panicked>>

\* the lookup, RUnlock, and then either the "not connected" error or the
\* request sent upstream through session.CallTool
CallToolLookup(t) ==
    /\ pc[t] = "call_read"
    /\ mu' = Release(t, "R")
    /\ IF CallToolExists(sessions, arg[t])
          THEN /\ sess' = [sess EXCEPT ![t] =
                              IF arg[t] \in DOMAIN sessions THEN sessions[arg[t]] ELSE Nil]
               /\ pc' = [pc EXCEPT ![t] = "call_wait"]
               /\ ret' = ret
          ELSE /\ sess' = sess
               /\ pc' = [pc EXCEPT ![t] = "idle"]
               /\ ret' = [ret EXCEPT ![t] =
                            [op |-> "CallTool", ok |-> FALSE, err |-> "not connected",
                             afterCancel |-> hist[t].afterCancel]]
    /\ arg' = [arg EXCEPT ![t] = ""]
    /\ hist' = [hist EXCEPT ![t] = IF CallToolExists(sessions, arg[t]) THEN @ ELSE NoHist]
    /\ UNCHANGED notMgrVars
    /\ UNCHANGED <<clients, sessions, tools, cancelled, conns, slices, toolRecs,
                   todo, cur, panicked>>

\* the upstream server answered: CallTool returns the result
CallToolResult(t) ==
    /\ pc[t] = "call_wait"
    /\ sess[t] # Nil
    /\ ret' = [ret EXCEPT ![t] = [op |-> "CallTool", ok |-> TRUE, err |-> "nil",
                                 afterCancel |-> hist[t].afterCancel]]
    /\ pc' = [pc EXCEPT ![t] = "idle"]
    /\ sess' = [sess EXCEPT ![t] = Nil]
    /\ hist' = [hist EXCEPT ![t] = NoHist]
    /\ UNCHANGED notMgrVars
    /\ UNCHANGED <<clients, sessions, tools, cancelled, mu, conns, slices,
                   toolRecs, arg, todo, cur, panicked>>

\* session.CallTool returned an error (the transport failed, the session was
\* closed, or the context is done): CallTool wraps and returns it
CallToolFail(t) ==
    /\ pc[t] = "call_wait"
    /\ ret' = [ret EXCEPT ![t] = [op |-> "CallTool", ok |-> FALSE, err |-> "tool call failed",
                                 afterCancel |-> hist[t].afterCancel]]
    /\ panicked' = (panicked \/ sess[t] = Nil)
    /\ pc' = [pc EXCEPT ![t] = "idle"]
    /\ sess' = [sess EXCEPT ![t] = Nil]
    /\ hist' = [hist EXCEPT ![t] = NoHist]
    /\ UNCHANGED notMgrVars
    /\ UNCHANGED <<clients, sessions, tools, cancelled, mu, conns, slices,
                   toolRecs, arg, todo, cur>>

\* ------------------------------------------------------------------------
\* Manager.GetAllTools
\* ------------------------------------------------------------------------

GetAllToolsRLock(t) ==
    /\ pc[t] = "idle"
    /\ CanAcquire("R")
    /\ mu' = Acquire(t, "R")
    /\ pc' = [pc EXCEPT ![t] = "gat_read"]
    /\ ret' = [ret EXCEPT ![t] = NoRet]
    /\ slices' = DropReturned(t)
    /\ UNCHANGED notMgrVars
    /\ UNCHANGED <<clients, sessions, tools, cancelled, conns, toolRecs,
                   arg, todo, cur, sess, hist, panicked>>

\* result[serverName] = make([]*mcp.Tool, len(tools)); copy(...): a new slice
\* per server that holds the same *mcp.Tool pointers
CopiedSlices(t) ==
    [a \in {<<"ret", t, s>> : s \in DOMAIN tools} |-> slices[tools[a[3]]]]

GetAllToolsCopy(t) ==
    /\ pc[t] = "gat_read"
    /\ slices' = [a \in (DOMAIN slices) \cup (DOMAIN CopiedSlices(t)) |->
                     IF a \in DOMAIN CopiedSlices(t) THEN CopiedSlices(t)[a]
                                                   ELSE slices[a]]
    /\ ret' = [ret EXCEPT ![t] =
                 [op |-> "GetAllTools", val |-> [s \in DOMAIN tools |-> <<"ret", t, s>>]]]
    /\ mu' = Release(t, "R")
    /\ pc' = [pc EXCEPT ![t] = "idle"]
    /\ UNCHANGED notMgrVars
    /\ UNCHANGED <<clients, sessions, tools, cancelled, conns, toolRecs,
                   arg, todo, cur, sess, hist, panicked>>

\* ------------------------------------------------------------------------
\* Manager.GetConnectedServers
\* ------------------------------------------------------------------------

GetConnectedServersRLock(t) ==
    /\ pc[t] = "idle"
    /\ CanAcquire("R")
    /\ mu' = Acquire(t, "R")
    /\ pc' = [pc EXCEPT ![t] = "gcs_read"]
    /\ ret' = [ret EXCEPT ![t] = NoRet]
    /\ slices' = DropReturned(t)
    /\ UNCHANGED notMgrVars
    /\ UNCHANGED <<clients, sessions, tools, cancelled, conns, toolRecs,
                   arg, todo, cur, sess, hist, panicked>>

GetConnectedServersRead(t) ==
    /\ pc[t] = "gcs_read"
    /\ ret' = [ret EXCEPT ![t] = [op |-> "GetConnectedServers", val |-> DOMAIN sessions]]
    /\ mu' = Release(t, "R")
    /\ pc' = [pc EXCEPT ![t] = "idle"]
    /\ UNCHANGED notMgrVars
    /\ UNCHANGED <<clients, sessions, tools, cancelled, conns, slices, toolRecs,
                   arg, todo, cur, sess, hist, panicked>>

\* ------------------------------------------------------------------------
\* The manager under concurrent callers
\* ------------------------------------------------------------------------

MgrStep(t) ==
    \/ StartLock(t) \/ StartNext(t)
    \/ HandshakeOk(t) \/ HandshakeFail(t) \/ StartReturn(t)
    \/ StopCall(t) \/ StopLock(t) \/ StopClose(t) \/ StopReturn(t)
    \/ CallToolCall(t) \/ CallToolRLock(t) \/ CallToolLookup(t)
    \/ CallToolResult(t) \/ CallToolFail(t)
    \/ GetAllToolsRLock(t) \/ GetAllToolsCopy(t)
    \/ GetConnectedServersRLock(t) \/ GetConnectedServersRead(t)

MgrNext == \E t \in Threads : MgrStep(t)

Next == MgrNext

Spec == Init /\ [][Next]_vars

\* ------------------------------------------------------------------------
\* Properties of the manager
\* ------------------------------------------------------------------------

\* where a goroutine reads, and where Start or Stop changes, the manager's maps
ReadPcs == {"call_read", "gat_read", "gcs_read"}
WritePcs == {"start_loop", "start_connecting", "stop_closing"}

\* C2: Stop is idempotent and safe. However many times it is called, and
\* whether Start connected all, some or none of the servers (or never ran),
\* no Stop dereferences nil, no session is closed a second time by a later
\* Stop, and a Stop that holds the lock can always take its next step, over
\* sessions that are really in the map.
C2_StopIdempotentSafe ==
    /\ ~panicked
    /\ \A c \in DOMAIN conns : conns[c].closes <= 1
    /\ \A t \in Threads :
          pc[t] = "stop_closing" =>
             /\ todo[t] \subseteq DOMAIN sessions
             /\ \A s \in todo[t] : sessions[s] # Nil
             /\ ENABLED (StopClose(t) \/ StopReturn(t))

\* two Stops have returned, after a Start that connected something
C2_Witness ==
    /\ \A t \in Threads : ret[t].op = "Stop"
    /\ Len(conns) > 0
    /\ \A c \in DOMAIN conns : conns[c].closes = 1

\* C3: when Start returns it has attempted every configured server, it
\* returns nil whatever failed, and every server whose attempt did not fail
\* (the failures are the ones it logged) is connected.
C3_StartAttemptsAll ==
    [][\A t \in Threads :
          (pc[t] = "start_loop" /\ pc'[t] = "idle") =>
             /\ hist[t].attempted = Servers
             /\ ret'[t] = [op |-> "Start", err |-> "nil"]
             /\ \A s \in Servers \ hist[t].failed :
                   /\ s \in DOMAIN sessions'
                   /\ conns'[sessions'[s]].server = s]_vars

\* Start has returned nil with one server connected and the other failed
C3_Witness ==
    \E t \in Threads :
       /\ ret[t] = [op |-> "Start", err |-> "nil"]
       /\ Len(conns) = 1
       /\ Cardinality(DOMAIN sessions) = 1

\* C4: at every moment there is at most one live Connection per server name.
C4_AtMostOneLivePerServer ==
    \A s \in Servers :
       Cardinality({c \in DOMAIN conns : conns[c].server = s /\ Live(c)}) <= 1

\* C5: a goroutine that reads the manager's maps holds the read lock and no
\* Start or Stop is in progress; a Start or Stop in progress holds the write
\* lock alone. Readers may share the lock.
C5_ReadsAndWritesExclude ==
    \A t \in Threads :
       /\ pc[t] \in ReadPcs =>
             /\ t \in mu.r
             /\ mu.w = NoThread
             /\ \A u \in Threads : pc[u] \notin WritePcs
       /\ pc[t] \in WritePcs =>
             /\ mu.w = t
             /\ mu.r = {}
             /\ \A u \in Threads \ {t} : pc[u] \notin WritePcs \cup ReadPcs

\* two CallTool lookups hold the read lock at the same time
C5_Witness ==
    \E t, u \in Threads :
       t # u /\ pc[t] = "call_read" /\ pc[u] = "call_read" /\ sessions # EmptyMap

\* C6: after Stop has returned the maps are empty and every Connection has
\* been closed.
C6_StopLeavesNothing ==
    \A t \in Threads :
       ret[t].op = "Stop" =>
          /\ sessions = EmptyMap
          /\ clients = EmptyMap
          /\ tools = EmptyMap
          /\ \A c \in DOMAIN conns : conns[c].closes > 0

\* C7: a CallTool whose lookup finds no server connected at all returns the
\* "not connected" error at once and sends nothing upstream, whatever server
\* it named.
C7_NotConnected ==
    [][\A t \in Threads :
          (pc[t] = "call_read" /\ DOMAIN sessions = {} /\ pc'[t] # "call_read") =>
             /\ pc'[t] = "idle"
             /\ ret'[t].op = "CallTool"
             /\ ~ret'[t].ok
             /\ ret'[t].err = "not connected"
             /\ sess'[t] = Nil]_vars

\* a call on a manager that never connected anything came back "not connected"
C7_Witness ==
    \E t \in Threads :
       /\ ret[t].op = "CallTool"
       /\ ret[t].err = "not connected"
       /\ Len(conns) = 0

\* ------------------------------------------------------------------------
\* The manager under fair scheduling
\* ------------------------------------------------------------------------

\* A goroutine inside an operation keeps running (the Go scheduler starves no
\* runnable goroutine), and a goroutine blocked on m.mu gets it if it is free
\* again and again (sync.RWMutex starves neither readers nor writers). The
\* upstream servers owe nothing: a handshake or a call may stay unanswered
\* for ever, unless the context it waits under is done, which ends it.
\* Nobody has to call the manager at all.
MgrFairness ==
    \A t \in Threads :
       /\ WF_mgrVars(StartNext(t) \/ StartReturn(t))
       /\ WF_mgrVars(StopClose(t) \/ StopReturn(t))
       /\ WF_mgrVars(CallToolLookup(t))
       /\ WF_mgrVars(GetAllToolsCopy(t) \/ GetConnectedServersRead(t))
       /\ SF_mgrVars(StopLock(t))
       /\ SF_mgrVars(CallToolRLock(t))
       /\ WF_mgrVars(ConnectCtxDone /\ HandshakeFail(t))
       /\ WF_mgrVars(CallCtxDone(cancelled) /\ CallToolFail(t))

FairSpec == Init /\ [][Next]_vars /\ MgrFairness

CallPcs == {"call_entry", "call_read", "call_wait"}

\* C1: once Stop has cancelled the manager's context, every CallTool that is
\* in flight (called, and not yet returned) returns, and every CallTool that
\* was called after the cancellation returns a failure; none blocks for ever.
C1_CancelEndsCalls ==
    /\ [](\A t \in Threads :
             (ret[t].op = "CallTool" /\ ret[t].afterCancel) => ~ret[t].ok)
    /\ \A t \in Threads :
          (cancelled /\ pc[t] \in CallPcs) ~> (pc[t] = "idle" /\ ret[t].op = "CallTool")

\* Stop has just cancelled the context while a call forwarded upstream is
\* still waiting for its answer
C1_Witness ==
    \E t, u \in Threads :
       /\ cancelled
       /\ pc[t] = "call_wait" /\ ~hist[t].afterCancel
       /\ pc[u] = "stop_closing"

\* ------------------------------------------------------------------------
\* The caller of GetAllTools changes what it was handed
\* ------------------------------------------------------------------------

\* the name a caller writes into a Tool record it reached
EditedName == "edited"

\* delete(result, s): the caller removes a server from the returned map
CallerEditMap(t) ==
    /\ pc[t] = "idle"
    /\ ret[t].op = "GetAllTools"
    /\ \E s \in DOMAIN ret[t].val :
          ret' = [ret EXCEPT ![t].val = [x \in (DOMAIN ret[t].val) \ {s} |-> ret[t].val[x]]]
    /\ UNCHANGED notMgrVars
    /\ UNCHANGED <<clients, sessions, tools, cancelled, mu, conns, slices,
                   toolRecs, pc, arg, todo, cur, sess, hist, panicked>>

\* result[s][i] = nil: the caller overwrites an element of a returned slice
CallerEditSlice(t) ==
    /\ pc[t] = "idle"
    /\ ret[t].op = "GetAllTools"
    /\ \E s \in DOMAIN ret[t].val :
          \E i \in DOMAIN slices[ret[t].val[s]] :
             /\ slices[ret[t].val[s]][i] # Nil
             /\ slices' = [slices EXCEPT ![ret[t].val[s]][i] = Nil]
    /\ UNCHANGED notMgrVars
    /\ UNCHANGED <<clients, sessions, tools, cancelled, mu, conns, toolRecs,
                   pc, arg, todo, cur, sess, ret, hist, panicked>>

\* result[s][i].Name = "edited": the caller writes through a returned pointer
CallerEditTool(t) ==
    /\ pc[t] = "idle"
    /\ ret[t].op = "GetAllTools"
    /\ \E s \in DOMAIN ret[t].val :
          \E i \in DOMAIN slices[ret[t].val[s]] :
             LET a == slices[ret[t].val[s]][i] IN
                /\ a # Nil
                /\ toolRecs[a].name # EditedName
                /\ toolRecs' = [toolRecs EXCEPT ![a].name = EditedName]
    /\ UNCHANGED notMgrVars
    /\ UNCHANGED <<clients, sessions, tools, cancelled, mu, conns, slices,
                   pc, arg, todo, cur, sess, ret, hist, panicked>>

CallerEdit(t) == CallerEditMap(t) \/ CallerEditSlice(t) \/ CallerEditTool(t)

\* one goroutine drives the manager and edits what GetAllTools returned to
\* it, while a second one calls GetAllTools
CopyNext ==
    \/ MgrStep(1)
    \/ CallerEdit(1)
    \/ GetAllToolsRLock(2) \/ GetAllToolsCopy(2)

CopySpec == Init /\ [][CopyNext]_vars

\* what the manager holds, and so what a GetAllTools call returns: per
\* server the list of its Tool records
ManagerView ==
    [s \in DOMAIN tools |->
        [i \in DOMAIN slices[tools[s]] |-> toolRecs[slices[tools[s]][i]]]]

\* C8: GetAllTools returns a deep copy: no change a caller makes to the
\* returned map, to a returned list or to a returned Tool record changes what
\* the manager holds (and so what another GetAllTools returns).
C8_ReturnedCopyIsDeep ==
    [][(\E t \in Threads : CallerEdit(t)) => ManagerView' = ManagerView]_vars

\* ------------------------------------------------------------------------
\* ExecuteWithProxy
\* ------------------------------------------------------------------------

\* the process is gone once a goroutine has run out of stack
Crashed == \E i \in Slots : epc[i] = "fatal"

\* the values ExecuteWithProxy returns
ParamFailure(e) ==
    [result |-> HNil, error |-> "Parameter conversion error: " \o e, err |-> "nil"]
ExecFailure(e) == [result |-> HNil, error |-> e, err |-> "nil"]
ConvFailure(e) ==
    [result |-> HNil, error |-> "Result conversion error: " \o e, err |-> "nil"]
Success(v) == [result |-> v, error |-> "", err |-> "nil"]

\* strings.Contains
Contains(text, pat) ==
    \E j \in 0 .. (Len(text) - Len(pat)) : SubSeq(text, j + 1, j + Len(pat)) = pat

isMultiLineCodeNewlineOnly(code) == Contains(code, <<"\n">>)
isMultiLineCode(code) ==
    Contains(code, <<"\n">>) \/ Contains(code, <<"r", "e", "t", "u", "r", "n">>)

isBuiltinName(name) ==
    name \in {"True", "False", "None", "bool", "dict", "enumerate", "float",
              "getattr", "hasattr", "int", "len", "list", "max", "min", "print",
              "range", "repr", "reversed", "sorted", "str", "tuple", "type", "zip"}

\* the params dict of the initial scope
ParamsDict(params) ==
    LET keys == SeqOf(DOMAIN params.v)
        items == [key \in DOMAIN params.v |-> GoToStarlarkValue(params.v[key])]
    IN IF \E key \in DOMAIN items : ~items[key].ok
          THEN FirstFailure(items, keys)
          ELSE Ok(SDict([j \in DOMAIN keys |-> <<SStr(keys[j]), items[keys[j]].val>>]))

\* CreateServerNamespaces: one namespace per server of GetAllTools
\* normalizeServerName, on the server names of this model: every hyphen
\* becomes an underscore
NormalizedName(server) == IF server = "a-b" THEN "a_b" ELSE server

CreateServerNamespacesNormalized(proxy) ==
    IF proxy.nil THEN EmptyMap
    ELSE [key \in {NormalizedName(srv) : srv \in DOMAIN proxy.tools} |->
            LET srv == CHOOSE x \in DOMAIN proxy.tools : NormalizedName(x) = key IN
               SNamespace(srv, {proxy.tools[srv][j] : j \in DOMAIN proxy.tools[srv]})]
CreateServerNamespaces(proxy) ==
    IF proxy.nil THEN EmptyMap
    ELSE [srv \in DOMAIN proxy.tools |->
            SNamespace(srv, {proxy.tools[srv][j] : j \in DOMAIN proxy.tools[srv]})]

\* dict[name] = value for every name of adds, other names kept
Overlay(dict, adds) ==
    [n \in DOMAIN dict \cup DOMAIN adds |-> IF n \in DOMAIN adds THEN adds[n] ELSE dict[n]]

\* the names a statement list binds at top level, and the names it reads
BoundNames(stmts) == {stmts[j].n : j \in {l \in DOMAIN stmts : stmts[l].k = "assign"}}
ExprRefs(x) ==
    CASE x.k = "name" -> {x.n}
      [] x.k = "call" -> {x.ns}
      [] OTHER -> {}
StmtRefs(st) == (IF st.k = "append" THEN {st.n} ELSE {}) \cup ExprRefs(st.x)
Refs(stmts) == UNION {StmtRefs(stmts[j]) : j \in DOMAIN stmts}

\* the resolver: names that are neither bound by the program, nor predeclared,
\* nor universal
Unresolved(refs, bound, pre) ==
    {n \in refs : n \notin bound /\ n \notin DOMAIN pre /\ n \notin DOMAIN Universe}

\* the value of a name: the module's globals, then predeclared, then Universe
Lookup(m, id, bound, n) ==
    LET g == EnvAt(m, GlobalsAddr(id))
        pre == EnvAt(m, PredeclaredAddr(id))
        u == m[UniverseAddr]
    IN IF n \in bound
          THEN IF n \in DOMAIN g THEN Ok(g[n].val)
               ELSE Err("global variable " \o n \o " referenced before assignment")
          ELSE IF n \in DOMAIN pre THEN Ok(pre[n].val)
               ELSE IF n \in DOMAIN u THEN Ok(u[n].val)
               ELSE Err("undefined: " \o n)

\* an expression that neither allocates nor calls out
Eval(m, id, bound, x) ==
    CASE x.k = "lit" -> Ok(x.v)
      [] x.k = "name" -> Lookup(m, id, bound, x.n)
      [] x.k = "floordiv" ->
            IF x.y = 0 THEN Err("floored division by zero") ELSE Ok(SInt(x.x \div x.y))
      [] OTHER -> Err("not a pure expression")

\* ExecuteWithProxy up to the call of executeCode: the initial scope
EngineCallOf(i, codes, params, proxies) ==
    /\ ~Crashed
    /\ epc[i] = "idle"
    /\ nextInv <= MaxInvocations
    /\ \E c \in codes, p \in params, x \in proxies :
          LET id == nextInv
              pa == PredeclaredAddr(id)
              copied == envs[UniverseAddr]
              withModules ==
                  Overlay(copied, [n \in ModuleNames |-> Binding(SModule(n), Shared)])
              conv == IF Params(p).k = "nil" THEN Ok(SNone) ELSE ParamsDict(Params(p))
              withParams ==
                  IF Params(p).k = "nil" THEN withModules
                  ELSE Overlay(withModules, [n \in {"params"} |-> Binding(conv.val, id)])
              spaces == CreateServerNamespaces(Proxy(x))
              withSpaces ==
                  Overlay(withParams, [n \in DOMAIN spaces |-> Binding(spaces[n], id)])
          IN /\ ecode' = [ecode EXCEPT ![i] = c]
             /\ eparams' = [eparams EXCEPT ![i] = p]
             /\ eproxy' = [eproxy EXCEPT ![i] = x]
             /\ eid' = [eid EXCEPT ![i] = id]
             /\ nextInv' = nextInv + 1
             /\ emode' = [emode EXCEPT ![i] = ""]
             /\ eip' = [eip EXCEPT ![i] = 0]
             /\ eheap' = [eheap EXCEPT ![i] = <<>>]
             /\ ecalls' = [ecalls EXCEPT ![i] = <<>>]
             /\ IF conv.ok
                   THEN /\ envs' = MapSet(envs, pa, withSpaces)
                        /\ epc' = [epc EXCEPT ![i] = "exec"]
                        /\ eres' = [eres EXCEPT ![i] = NoResult]
                   ELSE /\ envs' = MapSet(envs, pa, withModules)
                        /\ epc' = [epc EXCEPT ![i] = "done"]
                        /\ eres' = [eres EXCEPT ![i] = ParamFailure(conv.err)]
    /\ UNCHANGED notEngVars

EngineCallWith(i, codes, proxies) == EngineCallOf(i, codes, ParamIds, proxies)

EngineCall(i) == EngineCallWith(i, ScriptIds, ProxyIds)

\* how an invocation ends once its result value v is known: StarlarkToGoValue,
\* then the return
Marshal(i, heap, v) ==
    LET conv == StarlarkToGoValue(heap, v, {}) IN
       IF conv.overflow
          THEN /\ epc' = [epc EXCEPT ![i] = "fatal"]
               /\ eres' = eres
          ELSE /\ epc' = [epc EXCEPT ![i] = "done"]
               /\ eres' = [eres EXCEPT ![i] =
                              IF conv.ok THEN Success(conv.val) ELSE ConvFailure(conv.err)]

\* executeCode failed: the error text is the Result's Error
Fail(i, e) ==
    /\ epc' = [epc EXCEPT ![i] = "done"]
    /\ eres' = [eres EXCEPT ![i] = ExecFailure(e)]

\* executeAsExpression
EngineExpression(i) ==
    /\ ~Crashed
    /\ epc[i] = "exec"
    /\ ~isMultiLineCode(Script(ecode[i]).text)
    /\ LET parsed == Script(ecode[i]).expr
           pre == EnvAt(envs, PredeclaredAddr(eid[i]))
           missing == Unresolved(ExprRefs(parsed.x), {}, pre)
           val == Eval(envs, eid[i], {}, parsed.x)
       IN IF ~parsed.ok THEN Fail(i, "Evaluation error: " \o parsed.err)
          ELSE IF missing # {}
             THEN Fail(i, "Evaluation error: undefined: " \o (CHOOSE n \in missing : TRUE))
          ELSE IF ~val.ok THEN Fail(i, "Evaluation error: " \o val.err)
          ELSE Marshal(i, eheap[i], val.val)
    /\ emode' = [emode EXCEPT ![i] = "expression"]
    /\ UNCHANGED <<ecode, eparams, eproxy, eid, eip, eheap, ecalls, envs, nextInv>>
    /\ UNCHANGED notEngVars

\* executeAsProgram up to the first statement: parse, resolve, fresh globals
EngineProgram(i) ==
    /\ ~Crashed
    /\ epc[i] = "exec"
    /\ isMultiLineCode(Script(ecode[i]).text)
    /\ LET parsed == Script(ecode[i]).file
           pre == EnvAt(envs, PredeclaredAddr(eid[i]))
           missing == Unresolved(Refs(parsed.stmts), BoundNames(parsed.stmts), pre)
       IN IF ~parsed.ok
             THEN /\ Fail(i, "Execution error: " \o parsed.err)
                  /\ UNCHANGED <<eip, envs>>
          ELSE IF missing # {}
             THEN /\ Fail(i, "Execution error: undefined: "
                                \o (CHOOSE n \in missing : TRUE))
                  /\ UNCHANGED <<eip, envs>>
          ELSE /\ epc' = [epc EXCEPT ![i] = "stmt"]
               /\ eip' = [eip EXCEPT ![i] = 1]
               /\ envs' = MapSet(envs, GlobalsAddr(eid[i]), EmptyMap)
               /\ eres' = eres
    /\ emode' = [emode EXCEPT ![i] = "program"]
    /\ UNCHANGED <<ecode, eparams, eproxy, eid, eheap, ecalls, nextInv>>
    /\ UNCHANGED notEngVars

\* the program of a running invocation, its globals, the names it binds
Stmts(i) == Script(ecode[i]).file.stmts
Globals(i) == EnvAt(envs, GlobalsAddr(eid[i]))
Bound(i) == BoundNames(Stmts(i))

\* globals[n] = v, and on to the next statement
Bind(i, n, v) ==
    /\ envs' = MapSet(envs, GlobalsAddr(eid[i]),
                      MapSet(Globals(i), n, Binding(v, eid[i])))
    /\ eip' = [eip EXCEPT ![i] = eip[i] + 1]
    /\ UNCHANGED <<epc, eres>>

\* a runtime error ends ExecFileOptions
Raise(i, e) ==
    /\ Fail(i, "Execution error: " \o e)
    /\ UNCHANGED <<eip, envs>>

\* one statement: n = <expression>, or an expression on its own
EngineAssign(i) ==
    /\ ~Crashed
    /\ epc[i] = "stmt"
    /\ eip[i] \in DOMAIN Stmts(i)
    /\ LET st == Stmts(i)[eip[i]]
           val == Eval(envs, eid[i], Bound(i), st.x)
       IN /\ st.k \in {"assign", "expr"}
          /\ st.x.k \in {"lit", "name", "floordiv", "list"}
          /\ IF st.x.k = "list"
                THEN /\ eheap' = [eheap EXCEPT ![i] = Append(eheap[i], <<>>)]
                     /\ Bind(i, st.n, SListRef(Len(eheap[i]) + 1))
             ELSE IF ~val.ok
                THEN /\ Raise(i, val.err)
                     /\ eheap' = eheap
             ELSE IF st.k = "assign"
                THEN /\ Bind(i, st.n, val.val)
                     /\ eheap' = eheap
             ELSE /\ eip' = [eip EXCEPT ![i] = eip[i] + 1]
                  /\ UNCHANGED <<epc, eres, envs, eheap>>
    /\ UNCHANGED <<ecode, eparams, eproxy, eid, emode, ecalls, nextInv>>
    /\ UNCHANGED notEngVars

\* one statement: n.append(<expression>)
EngineAppend(i) ==
    /\ ~Crashed
    /\ epc[i] = "stmt"
    /\ eip[i] \in DOMAIN Stmts(i)
    /\ LET st == Stmts(i)[eip[i]]
           target == Lookup(envs, eid[i], Bound(i), st.n)
           val == Eval(envs, eid[i], Bound(i), st.x)
       IN /\ st.k = "append"
          /\ IF ~target.ok
                THEN /\ Raise(i, target.err)
                     /\ eheap' = eheap
             ELSE IF target.val.k # "listref"
                THEN /\ Raise(i, target.val.k \o " has no .append field or method")
                     /\ eheap' = eheap
             ELSE IF ~val.ok
                THEN /\ Raise(i, val.err)
                     /\ eheap' = eheap
             ELSE /\ eheap' = [eheap EXCEPT ![i][target.val.a] = Append(@, val.val)]
                  /\ eip' = [eip EXCEPT ![i] = eip[i] + 1]
                  /\ UNCHANGED <<epc, eres, envs>>
    /\ UNCHANGED <<ecode, eparams, eproxy, eid, emode, ecalls, nextInv>>
    /\ UNCHANGED notEngVars

\* ToolFunction.CallInternal, the argument map: none, one positional dict,
\* or keywords only; pos and kw are the evaluated arguments
NoArguments == HMap(EmptyMap)
ConvertArgumentsDropped(heap, pos, kw) == Ok(NoArguments)
ConvertArguments(heap, pos, kw) ==
    IF Len(pos) = 0 /\ Len(kw) = 0 THEN Ok(NoArguments)
    ELSE IF Len(pos) = 1 /\ Len(kw) = 0
       THEN IF pos[1].k = "dict"
               THEN LET conv == StarlarkToGoValue(heap, pos[1], {}) IN
                       IF ~conv.ok THEN Err("failed to convert arguments: " \o conv.err)
                       ELSE IF conv.val.k = "map" THEN conv
                       ELSE Err("argument must be a dict/map")
               ELSE Err("single argument must be a dict")
    ELSE IF Len(pos) = 0 /\ Len(kw) > 0
       THEN LET keys == {kw[j][1] : j \in DOMAIN kw}
                last(key) == CHOOSE j \in DOMAIN kw :
                                /\ kw[j][1] = key
                                /\ \A l \in DOMAIN kw : kw[l][1] = key => l <= j
                items == [key \in keys |-> StarlarkToGoValue(heap, kw[last(key)][2], {})]
            IN IF \E key \in keys : ~items[key].ok
                  THEN Err("failed to convert keyword argument: "
                              \o FirstFailure(items, SeqOf(keys)).err)
                  ELSE Ok(HMap([key \in keys |-> items[key].val]))
    ELSE Err("tool functions accept either a single dict argument or keyword arguments")

\* a call of proxyManager.CallTool: what was passed, by which statement, and
\* whether it has returned
CallRecord(server, tool, arguments, at) ==
    [server |-> server, tool |-> tool, arguments |-> arguments, at |-> at,
     returned |-> FALSE]

\* CallInternal is inside proxyManager.CallTool until it returns: the
\* script's thread does nothing else meanwhile
DontWaitForCall(pcs, i) == [pcs EXCEPT ![i] = "stmt"]
WaitForCall(pcs, i) == [pcs EXCEPT ![i] = "calling"]

\* the dict CallInternal makes of a result whose Content is one text
ToolResultDict == SDict(<< <<SStr("content"), SList(<<SStr("done")>>)>> >>)

\* ServerNamespace.Attr: is name one of the namespace's tools
AttrExistsAlways(space, name) == TRUE
AttrExists(space, name) == name \in space.tools

\* the server name a namespace forwards calls under
ForwardedNameOf(space) == space.server

\* one statement, n = <namespace>.<tool>(...), up to the call of
\* proxyManager.CallTool: ServerNamespace.Attr, the argument map, the call
EngineToolCall(i) ==
    /\ ~Crashed
    /\ epc[i] = "stmt"
    /\ eip[i] \in DOMAIN Stmts(i)
    /\ LET st == Stmts(i)[eip[i]]
           space == Lookup(envs, eid[i], Bound(i), st.x.ns)
           pos == [j \in DOMAIN st.x.pos |-> st.x.pos[j].v]
           kw == [j \in DOMAIN st.x.kw |-> <<st.x.kw[j][1], st.x.kw[j][2].v>>]
           arguments == ConvertArguments(eheap[i], pos, kw)
       IN /\ st.k = "assign"
          /\ st.x.k = "call"
          /\ IF ~space.ok
                THEN Raise(i, space.err) /\ ecalls' = ecalls
             ELSE IF space.val.k # "server_namespace"
                THEN /\ Raise(i, space.val.k \o " has no ." \o st.x.tool \o " field or method")
                     /\ ecalls' = ecalls
             ELSE IF ~AttrExists(space.val, st.x.tool)
                THEN /\ Raise(i, "server '" \o space.val.server \o "' has no tool '"
                                    \o st.x.tool \o "'")
                     /\ ecalls' = ecalls
             ELSE IF ~arguments.ok
                THEN /\ Raise(i, arguments.err)
                     /\ ecalls' = ecalls
             ELSE /\ ecalls' = [ecalls EXCEPT ![i] =
                                   Append(@, CallRecord(ForwardedNameOf(space.val),
                                                        st.x.tool, arguments.val, eip[i]))]
                  /\ epc' = WaitForCall(epc, i)
                  /\ UNCHANGED <<eip, eres, envs>>
    /\ UNCHANGED <<ecode, eparams, eproxy, eid, emode, eheap, nextInv>>
    /\ UNCHANGED notEngVars

\* proxyManager.CallTool returns, and with it CallInternal: the script goes on
\* with the result dict, or ends with the failure
EngineToolReturn(i) ==
    /\ ~Crashed
    /\ epc[i] = "calling"
    /\ ecalls' = [ecalls EXCEPT ![i][Len(ecalls[i])].returned = TRUE]
    /\ \E outcome \in CallOutcomes :
          IF outcome = "error"
             THEN Raise(i, "tool call failed: " \o outcome)
             ELSE /\ envs' = MapSet(envs, GlobalsAddr(eid[i]),
                                    MapSet(Globals(i), Stmts(i)[eip[i]].n,
                                           Binding(ToolResultDict, eid[i])))
                  /\ eip' = [eip EXCEPT ![i] = eip[i] + 1]
                  /\ epc' = [epc EXCEPT ![i] = "stmt"]
                  /\ eres' = eres
    /\ UNCHANGED <<ecode, eparams, eproxy, eid, emode, eheap, nextInv>>
    /\ UNCHANGED notEngVars

filterNothing(modGlobals, predeclared) == DOMAIN modGlobals
filterUserGlobals(modGlobals, predeclared) ==
    {n \in DOMAIN modGlobals : n \notin DOMAIN predeclared /\ ~isBuiltinName(n)}

extractResultFromGlobals(modGlobals, predeclared) ==
    LET names == SeqOf(filterUserGlobals(modGlobals, predeclared)) IN
       IF names = <<>> THEN SNone
       ELSE SDict([j \in DOMAIN names |-> <<SStr(names[j]), modGlobals[names[j]].val>>])

\* executeAsProgram after the last statement, and the rest of ExecuteWithProxy
EngineFinish(i) ==
    /\ ~Crashed
    /\ epc[i] = "stmt"
    /\ eip[i] \notin DOMAIN Stmts(i)
    /\ LET pre == EnvAt(envs, PredeclaredAddr(eid[i])) IN
          Marshal(i, eheap[i],
                  IF "result" \in DOMAIN Globals(i) THEN Globals(i)["result"].val
                  ELSE extractResultFromGlobals(Globals(i), pre))
    /\ UNCHANGED <<ecode, eparams, eproxy, eid, emode, eip, eheap, ecalls, envs,
                   nextInv>>
    /\ UNCHANGED notEngVars

\* the caller has taken the result; the invocation's dicts are garbage (the
\* package-level Universe is not)
EngineReturn(i) ==
    /\ ~Crashed
    /\ epc[i] = "done"
    /\ epc' = [epc EXCEPT ![i] = "idle"]
    /\ eres' = [eres EXCEPT ![i] = NoResult]
    /\ ecode' = [ecode EXCEPT ![i] = 1]
    /\ eparams' = [eparams EXCEPT ![i] = 1]
    /\ eproxy' = [eproxy EXCEPT ![i] = 1]
    /\ emode' = [emode EXCEPT ![i] = ""]
    /\ eip' = [eip EXCEPT ![i] = 0]
    /\ eheap' = [eheap EXCEPT ![i] = <<>>]
    /\ ecalls' = [ecalls EXCEPT ![i] = <<>>]
    /\ envs' = [a \in DOMAIN envs
                     \ ({PredeclaredAddr(eid[i]), GlobalsAddr(eid[i])} \ {UniverseAddr})
                 |-> envs[a]]
    /\ eid' = [eid EXCEPT ![i] = 0]
    /\ UNCHANGED nextInv
    /\ UNCHANGED notEngVars

EngStep(i) ==
    \/ EngineCall(i)
    \/ EngineExpression(i)
    \/ EngineProgram(i)
    \/ EngineAssign(i)
    \/ EngineAppend(i)
    \/ EngineToolCall(i)
    \/ EngineToolReturn(i)
    \/ EngineFinish(i)
    \/ EngineReturn(i)

EngNext == \E i \in Slots : EngStep(i)

\* invocations whose bodies call through the bridge
BridgeCall(i) == EngineCallWith(i, BridgeScriptIds, BridgeProxyIds)

BridgeStep(i) ==
    \/ BridgeCall(i)
    \/ EngineProgram(i)
    \/ EngineToolCall(i)
    \/ EngineToolReturn(i)
    \/ EngineFinish(i)
    \/ EngineReturn(i)

BridgeNext == \E i \in Slots : BridgeStep(i)

BridgeSpec == Init /\ [][BridgeNext]_vars

EngSpec == Init /\ [][EngNext]_vars

\* ------------------------------------------------------------------------
\* Claims about the execution engine
\* ------------------------------------------------------------------------

\* inputs whose invocation must end in a failure: a parameter of an
\* unsupported type, a body that parses neither way, a division by zero
BadParams(i) ==
    /\ Params(eparams[i]).k = "map"
    /\ \E key \in DOMAIN Params(eparams[i]).v : Params(eparams[i]).v[key].k = "chan"
MustFail(i) ==
    \/ BadParams(i)
    \/ ~Script(ecode[i]).file.ok /\ ~Script(ecode[i]).expr.ok
    \/ Contains(Script(ecode[i]).text, <<"/", "/", " ", "0">>)

\* C9: ExecuteWithProxy never fails at host level, whatever the body, the
\* params and the bridge: every invocation that ends returns a nil error, a
\* failure is a message in the Result (with no result value beside it), and no
\* invocation takes the process down instead of returning.
C9_FailuresAreData ==
    \A i \in Slots :
       /\ epc[i] # "fatal"
       /\ epc[i] = "done" =>
             /\ eres[i].err = "nil"
             /\ eres[i].error # "" => eres[i].result.k = "nil"
             /\ MustFail(i) => eres[i].error # ""

\* the names an invocation's initial scope holds by its own inputs
OwnScopeNames(i) ==
    UniverseNames \cup ModuleNames
       \cup (IF Params(eparams[i]).k = "nil" \/ BadParams(i) THEN {} ELSE {"params"})
       \cup (IF BadParams(i) THEN {} ELSE DOMAIN Proxy(eproxy[i]).tools)

\* the global names the statements run so far have bound
BoundSoFar(i) ==
    {Stmts(i)[j].n : j \in {l \in DOMAIN Stmts(i) : l < eip[i] /\ Stmts(i)[l].k = "assign"}}

\* C10: each invocation runs in a fresh scope and nothing persists: the
\* package-level Universe is never changed; every global an invocation can
\* see was bound by a statement that this invocation has run; its initial
\* scope holds the shared immutable built-ins and modules and what was made
\* from its own params and bridge, nothing else; and a body that reads a name
\* it never binds fails as undefined, whatever other invocations bound,
\* before or at the same time.
C10_FreshScope ==
    /\ envs[UniverseAddr] = Universe
    /\ \A i \in Slots :
          /\ epc[i] \in {"exec", "stmt", "done"} =>
                LET pre == EnvAt(envs, PredeclaredAddr(eid[i])) IN
                   /\ DOMAIN pre = OwnScopeNames(i)
                   /\ \A n \in DOMAIN pre :
                         /\ pre[n].by \in {Shared, eid[i]}
                         /\ pre[n].by = Shared =>
                               pre[n].val.k \in {"none", "bool", "builtin", "module"}
                   /\ \A n \in DOMAIN Globals(i) : Globals(i)[n].by = eid[i]
                   /\ epc[i] = "stmt" => DOMAIN Globals(i) = BoundSoFar(i)
          /\ epc[i] = "done" /\ ecode[i] = 2 /\ ~BadParams(i) =>
                eres[i].error = "Evaluation error: undefined: x"
          /\ epc[i] = "done" /\ ecode[i] = 3 /\ eparams[i] = 1 =>
                eres[i].error = "Evaluation error: undefined: params"

\* two invocations in the middle of their programs at the same time, each
\* with its own global x, while an earlier invocation has come and gone
C10_Witness ==
    /\ epc[1] = "stmt" /\ epc[2] = "stmt"
    /\ "x" \in DOMAIN Globals(1) /\ "x" \in DOMAIN Globals(2)
    /\ Globals(1)["x"].val.k = "int" /\ Globals(2)["x"].val.k = "listref"
    /\ eid[1] > 1 /\ eid[2] > 1

\* a newline, or the letters r e t u r n in a row, somewhere in the body
HasNewline(text) == \E j \in DOMAIN text : text[j] = "\n"
HasReturn(text) ==
    \E j \in DOMAIN text :
       /\ j + 5 \in DOMAIN text
       /\ <<text[j], text[j + 1], text[j + 2], text[j + 3], text[j + 4], text[j + 5]>>
             = <<"r", "e", "t", "u", "r", "n">>

FinishedWithoutResult(i) ==
    /\ epc[i] = "done"
    /\ emode[i] = "program"
    /\ eres[i].error = ""
    /\ "result" \notin BoundNames(Stmts(i))

\* the language's built-in names that this model has
BuiltinNames == {n \in UniverseNames : isBuiltinName(n)}

\* C12: when a program finishes without a global named result, its result is
\* the mapping of exactly the globals the script bound that are neither names
\* of its initial scope (params when supplied, built-ins, modules, namespaces)
\* nor built-in names, each with its converted value; it is null when there is
\* no such global.
C12_ResultIsUserGlobals ==
    \A i \in Slots :
       FinishedWithoutResult(i) =>
          LET introduced == BoundNames(Stmts(i)) \ (OwnScopeNames(i) \cup BuiltinNames) IN
             IF introduced = {}
                THEN eres[i].result.k = "nil"
                ELSE /\ eres[i].result.k = "map"
                     /\ DOMAIN eres[i].result.v = introduced
                     /\ "params" \in OwnScopeNames(i) => "params" \notin DOMAIN eres[i].result.v
                     /\ DOMAIN eres[i].result.v \cap UniverseNames = {}
                     /\ \A n \in introduced :
                           eres[i].result.v[n]
                              = StarlarkToGoValue(eheap[i], Globals(i)[n].val, {}).val

\* a program that rebinds params, run with params supplied, has returned only
\* its other global; a program that binds nothing has returned null
C12_Witness ==
    /\ FinishedWithoutResult(1) /\ ecode[1] = 13 /\ eparams[1] = 2
    /\ eres[1].result.k = "map" /\ DOMAIN eres[1].result.v = {"z"}
    /\ FinishedWithoutResult(2) /\ ecode[2] = 12 /\ eres[2].result.k = "nil"

\* ------------------------------------------------------------------------
\* Claims about the bridge
\* ------------------------------------------------------------------------

\* an invocation whose initial scope has been built with a proxyManager
Bridged(i) ==
    /\ epc[i] \in {"exec", "stmt", "calling", "done"}
    /\ ~BadParams(i)
    /\ ~Proxy(eproxy[i]).nil
DiscoveredTools(i) == Proxy(eproxy[i]).tools
InitialScope(i) == EnvAt(envs, PredeclaredAddr(eid[i]))

\* C13: a server's namespace is in the script's scope under the normalized
\* server name and not under the original key, and every call made through
\* a namespace goes to the proxy manager under the original server name.
C13_NormalizedKeyOriginalCall ==
    \A i \in Slots :
       Bridged(i) =>
          /\ \A srv \in DOMAIN DiscoveredTools(i) :
                /\ NormalizedName(srv) \in DOMAIN InitialScope(i)
                /\ InitialScope(i)[NormalizedName(srv)].val.k = "server_namespace"
                /\ InitialScope(i)[NormalizedName(srv)].val.server = srv
                /\ NormalizedName(srv) # srv => srv \notin DOMAIN InitialScope(i)
          /\ \A j \in DOMAIN ecalls[i] : ecalls[i][j].server \in DOMAIN DiscoveredTools(i)

\* the names of the initial scope bound to a namespace of server srv
SpacesOf(i, srv) ==
    {n \in DOMAIN InitialScope(i) :
        /\ InitialScope(i)[n].val.k = "server_namespace"
        /\ InitialScope(i)[n].val.server = srv}

\* C14: for every server with at least one discovered tool there is one
\* namespace, and attribute lookup on it gives exactly the discovered tool
\* names: a call of a discovered tool goes through, a lookup of any other
\* name fails and nothing is called.
C14_NamespaceExposesDiscovered ==
    \A i \in Slots :
       Bridged(i) =>
          /\ \A srv \in DOMAIN DiscoveredTools(i) :
                DiscoveredTools(i)[srv] # <<>> =>
                   /\ Cardinality(SpacesOf(i, srv)) = 1
                   /\ \A n \in SpacesOf(i, srv) :
                         InitialScope(i)[n].val.tools
                            = {DiscoveredTools(i)[srv][j] : j \in DOMAIN DiscoveredTools(i)[srv]}
          /\ \A j \in DOMAIN ecalls[i] :
                /\ ecalls[i][j].server \in DOMAIN DiscoveredTools(i)
                /\ \E l \in DOMAIN DiscoveredTools(i)[ecalls[i][j].server] :
                      DiscoveredTools(i)[ecalls[i][j].server][l] = ecalls[i][j].tool
          /\ epc[i] = "done" /\ ecode[i] = 16 =>
                /\ eres[i].error = "Execution error: server 'c' has no tool 'zz'"
                /\ ecalls[i] = <<>>
          /\ epc[i] = "done" /\ ecode[i] = 15 => Len(ecalls[i]) = 1

\* one invocation's lookup of an undiscovered tool has failed while another's
\* call of a discovered tool is with the proxy manager
C14_Witness ==
    /\ Bridged(1) /\ epc[1] = "done" /\ ecode[1] = 16 /\ eres[1].error # ""
    /\ Bridged(2) /\ epc[2] = "calling" /\ ecode[2] = 15
    /\ ecalls[2][1].server = "c" /\ ecalls[2][1].tool = "t1"

\* the argument map each call shape of the model's bodies must forward
ExpectedArguments(c) ==
    CASE c = 15 -> HMap(EmptyMap)
      [] c = 17 -> HMap([q |-> HInt64(1)])
      [] OTHER -> HMap([q |-> HInt64(1), r |-> HInt64(2)])
ShapeError ==
    "Execution error: tool functions accept either a single dict argument or keyword arguments"

\* C15: a tool function called with no arguments forwards an empty map; with
\* one positional dict, that dict converted; with keywords only, the keywords
\* as one map; with several positional arguments, or positional and keyword
\* arguments together, it fails with the argument-shape error and forwards
\* nothing.
C15_CallShapes ==
    \A i \in Slots :
       Bridged(i) =>
          /\ ecode[i] \in {15, 17, 18} /\ epc[i] \in {"calling", "done"} =>
                /\ Len(ecalls[i]) = 1
                /\ ecalls[i][1].arguments = ExpectedArguments(ecode[i])
          /\ ecode[i] \in {19, 20} =>
                /\ ecalls[i] = <<>>
                /\ epc[i] \notin {"exec", "stmt"} =>
                      epc[i] = "done" /\ eres[i].error = ShapeError

\* a keyword call is with the proxy manager with its keywords merged into one
\* map, and a call mixing a positional dict with a keyword has failed
C15_Witness ==
    /\ Bridged(1) /\ epc[1] = "calling" /\ ecode[1] = 18
    /\ DOMAIN ecalls[1][1].arguments.v = {"q", "r"}
    /\ Bridged(2) /\ epc[2] = "done" /\ ecode[2] = 20
    /\ eres[2].error = ShapeError

\* C16: within one invocation the calls reach the proxy manager one at a time
\* and in program order, and each returns to the script before the script's
\* next step: only the last call can be outstanding, and exactly while the
\* script waits in it; the calls were made by successive statements; while a
\* call is outstanding no later statement has run; and once the script is past
\* a call's statement, the call has returned and its result is bound.
C16_CallsOneAtATimeInOrder ==
    \A i \in Slots :
       LET calls == ecalls[i] IN
          /\ \A j \in DOMAIN calls : ~calls[j].returned => j = Len(calls) /\ epc[i] = "calling"
          /\ epc[i] = "calling" =>
                /\ calls # <<>>
                /\ ~calls[Len(calls)].returned
                /\ calls[Len(calls)].at = eip[i]
                /\ DOMAIN Globals(i) = BoundSoFar(i)
          /\ \A j, l \in DOMAIN calls : j < l => calls[j].at < calls[l].at
          /\ epc[i] = "stmt" =>
                \A j \in DOMAIN calls :
                   /\ calls[j].at < eip[i]
                   /\ Stmts(i)[calls[j].at].n \in DOMAIN Globals(i)

\* the second call of a body is with the proxy manager, the first has
\* returned and its result is bound
C16_Witness ==
    /\ epc[1] = "calling" /\ ecode[1] = 22
    /\ Len(ecalls[1]) = 2
    /\ ecalls[1][1].returned /\ ecalls[1][1].tool = "t1" /\ ecalls[1][2].tool = "t2"
    /\ "u" \in DOMAIN Globals(1) /\ "v" \notin DOMAIN Globals(1)

\* ------------------------------------------------------------------------
\* Value conversion on its own
\* ------------------------------------------------------------------------

\* nesting depth of the host values converted
MaxDepth == 1

\* host values of the supported types: the primitives, and sequences and
\* string-keyed maps of up to two values, nested
HostAtoms ==
    {HNil, HBool(TRUE), HInt(0), HInt(-1), HInt64(7), HFloat("3.5"), HStr("a")}
RECURSIVE HostValues(_)
HostValues(d) ==
    IF d = 0 THEN HostAtoms
    ELSE LET sub == HostValues(d - 1) IN
            sub \cup {HSlice(<<>>)} \cup {HMap(EmptyMap)}
                \cup {HSlice(<<a>>) : a \in sub}
                \cup {HSlice(<<a, b>>) : a \in sub, b \in sub}
                \cup {HMap([k |-> a]) : a \in sub}
                \cup {HMap([k |-> a, j |-> b]) : a \in sub, b \in sub}

\* values a script can return that hold tuples, like the pairs of enumerate
\* and zip
TupleResults ==
    {STuple(<<SInt(0), SStr("a")>>),
     STuple(<<>>),
     STuple(<<SInt(1)>>),
     SList(<<STuple(<<SInt(0), SStr("a")>>), STuple(<<SInt(1), SStr("b")>>)>>)}

\* a caller has a host value to pass into a script
ConvInput ==
    /\ cpc = "idle"
    /\ \E v \in HostValues(MaxDepth) : cin' = v
    /\ cpc' = "in"
    /\ csrc' = "host"
    /\ UNCHANGED <<cmid, cout>>
    /\ UNCHANGED notConvVars

\* GoToStarlarkValue(cin)
ConvToStarlark ==
    /\ cpc = "in"
    /\ cmid' = GoToStarlarkValue(cin)
    /\ cpc' = "mid"
    /\ UNCHANGED <<csrc, cin, cout>>
    /\ UNCHANGED notConvVars

\* a script has finished with a result value
ConvResult ==
    /\ cpc = "idle"
    /\ \E v \in TupleResults : cmid' = Ok(v)
    /\ cpc' = "mid"
    /\ csrc' = "script"
    /\ UNCHANGED <<cin, cout>>
    /\ UNCHANGED notConvVars

\* StarlarkToGoValue(cmid)
ConvToGo ==
    /\ cpc = "mid"
    /\ cmid.ok
    /\ cout' = StarlarkToGoValue(<<>>, cmid.val, {})
    /\ cpc' = "out"
    /\ UNCHANGED <<csrc, cin, cmid>>
    /\ UNCHANGED notConvVars

ConvNext == ConvInput \/ ConvToStarlark \/ ConvResult \/ ConvToGo

ConvSpec == Init /\ [][ConvNext]_vars

\* the host value v with every integer as a 64-bit integer, nothing else
\* changed
RECURSIVE AsInt64(_)
AsInt64(v) ==
    CASE v.k = "int" -> HInt64(v.v)
      [] v.k = "slice" -> HSlice([j \in DOMAIN v.v |-> AsInt64(v.v[j])])
      [] v.k = "map" -> HMap([key \in DOMAIN v.v |-> AsInt64(v.v[key])])
      [] OTHER -> v

C18_TupleBecomesSequence ==
    cpc = "out" /\ csrc = "script" /\ cmid.val.k = "tuple" =>
       /\ cout.ok
       /\ cout.val.k = "slice"
       /\ Len(cout.val.v) = Len(cmid.val.v)
       /\ \A j \in DOMAIN cmid.val.v :
             cout.val.v[j] = StarlarkToGoValue(<<>>, cmid.val.v[j], {}).val

\* ------------------------------------------------------------------------
\* Saved tools: handleSavedTool
\* ------------------------------------------------------------------------

\* input schemas, as the map[string]interface{} a definition stores: none,
\* an object with a required number n, an object with an optional string n
EmptySchema == HMap(EmptyMap)
RequiredNumberSchema ==
    HMap([type |-> HStr("object"),
          properties |-> HMap([n |-> HMap([type |-> HStr("number")])]),
          required |-> HSlice(<<HStr("n")>>)])
OptionalStringSchema ==
    HMap([type |-> HStr("object"),
          properties |-> HMap([n |-> HMap([type |-> HStr("string")])])])

\* the saved tool definitions: each body calls through the bridge
SavedToolIds == 1 .. 3
SavedTool(t) ==
    CASE t = 1 -> [InputSchema |-> EmptySchema, Code |-> 15]
      [] t = 2 -> [InputSchema |-> RequiredNumberSchema, Code |-> 22]
      [] OTHER -> [InputSchema |-> OptionalStringSchema, Code |-> 15]

\* the args of a request: {"n": 1}, {"n": "x"}, {}
SavedArgIds == {2, 4, 5}

\* does a value have the JSON type a schema names
HasJSONType(v, type) ==
    CASE type = "number" -> v.k \in {"int", "int64", "float64"}
      [] type = "string" -> v.k = "string"
      [] type = "object" -> v.k = "map"
      [] OTHER -> FALSE

\* resolved.Validate: type, required, properties
RECURSIVE SchemaValidate(_, _)
SchemaValidate(schema, params) ==
    /\ "type" \in DOMAIN schema.v => HasJSONType(params, schema.v["type"].v)
    /\ "required" \in DOMAIN schema.v =>
          \A j \in DOMAIN schema.v["required"].v :
             schema.v["required"].v[j].v \in DOMAIN params.v
    /\ "properties" \in DOMAIN schema.v =>
          \A n \in DOMAIN schema.v["properties"].v \cap DOMAIN params.v :
             SchemaValidate(schema.v["properties"].v[n], params.v[n])

\* ValidateParams: nil, or the error
NoError == "nil"
ValidateParamsAlwaysNil(schema, params) == NoError
ValidateParams(schema, params) ==
    IF DOMAIN schema.v = {} THEN NoError
    ELSE IF SchemaValidate(schema, params) THEN NoError
    ELSE "Parameter validation failed"

\* the server hands a request for a saved tool to its handler
SavedToolRequest(i) ==
    /\ ~Crashed
    /\ hpc[i] = "idle"
    /\ epc[i] = "idle"
    /\ nextInv <= MaxInvocations
    /\ \E t \in SavedToolIds, a \in SavedArgIds :
          /\ htool' = [htool EXCEPT ![i] = t]
          /\ hargs' = [hargs EXCEPT ![i] = a]
    /\ hpc' = [hpc EXCEPT ![i] = "validate"]
    /\ hresp' = [hresp EXCEPT ![i] = ""]
    /\ UNCHANGED notSavVars

\* handleSavedTool, the validation: on an error the handler returns it
HandleSavedToolValidate(i) ==
    /\ ~Crashed
    /\ hpc[i] = "validate"
    /\ LET err == ValidateParams(SavedTool(htool[i]).InputSchema, Params(hargs[i])) IN
          IF err # NoError
             THEN /\ hpc' = [hpc EXCEPT ![i] = "done"]
                  /\ hresp' = [hresp EXCEPT ![i] = err]
             ELSE /\ hpc' = [hpc EXCEPT ![i] = "run"]
                  /\ hresp' = hresp
    /\ UNCHANGED <<htool, hargs>>
    /\ UNCHANGED notSavVars

\* handleSavedTool, the call of ExecuteWithProxy with the tool's code and
\* the args
HandleSavedToolExecute(i) ==
    /\ hpc[i] = "run"
    /\ EngineCallOf(i, {SavedTool(htool[i]).Code}, {hargs[i]}, BridgeProxyIds)

\* handleSavedTool, after ExecuteWithProxy has returned: the response
HandleSavedToolRespond(i) ==
    /\ ~Crashed
    /\ hpc[i] = "run"
    /\ epc[i] = "done"
    /\ hpc' = [hpc EXCEPT ![i] = "done"]
    /\ hresp' = [hresp EXCEPT ![i] =
                    IF eres[i].err # "nil" THEN "Tool execution failed: " \o eres[i].err
                    ELSE IF eres[i].error # "" THEN "Tool error: " \o eres[i].error
                    ELSE "Result"]
    /\ UNCHANGED <<htool, hargs>>
    /\ UNCHANGED notSavVars

\* the handler's invocation of the engine is over
SavedEngineReturn(i) ==
    /\ hpc[i] = "done"
    /\ EngineReturn(i)

\* the server has sent the handler's response
SavedToolReturn(i) ==
    /\ ~Crashed
    /\ hpc[i] = "done"
    /\ epc[i] = "idle"
    /\ hpc' = [hpc EXCEPT ![i] = "idle"]
    /\ htool' = [htool EXCEPT ![i] = 1]
    /\ hargs' = [hargs EXCEPT ![i] = 1]
    /\ hresp' = [hresp EXCEPT ![i] = ""]
    /\ UNCHANGED notSavVars

SavedStep(i) ==
    \/ SavedToolRequest(i)
    \/ HandleSavedToolValidate(i)
    \/ HandleSavedToolExecute(i)
    \/ EngineProgram(i)
    \/ EngineToolCall(i)
    \/ EngineToolReturn(i)
    \/ EngineFinish(i)
    \/ HandleSavedToolRespond(i)
    \/ SavedEngineReturn(i)
    \/ SavedToolReturn(i)

SavedNext == \E i \in Slots : SavedStep(i)

SavedSpec == Init /\ [][SavedNext]_vars

\* the arguments of the request a handler is serving pass its tool's schema
ArgsValid(i) ==
    LET schema == SavedTool(htool[i]).InputSchema IN
       DOMAIN schema.v = {} \/ SchemaValidate(schema, Params(hargs[i]))

\* C19: the body of a saved tool runs only for a request whose arguments
\* passed validation against the tool's input schema; for a request whose
\* arguments fail it, the handler answers with the validation error, the
\* body never starts and no call goes to an upstream server.
C19_BodyOnlyAfterValidation ==
    \A i \in Slots :
       /\ epc[i] # "idle" => hpc[i] \in {"run", "done"} /\ ArgsValid(i)
       /\ hpc[i] # "idle" /\ ~ArgsValid(i) =>
             /\ epc[i] = "idle"
             /\ eid[i] = 0
             /\ ecalls[i] = <<>>
             /\ hpc[i] = "done" => hresp[i] = "Parameter validation failed"

\* one request has been refused for its arguments, its body (which calls a
\* tool) not run, while a request with valid arguments has called its tool
C19_Witness ==
    \E i, j \in Slots :
       /\ hpc[i] = "done" /\ ~ArgsValid(i)
       /\ hresp[i] = "Parameter validation failed"
       /\ ecalls[i] = <<>>
       /\ hpc[j] = "run" /\ ArgsValid(j)
       /\ Len(ecalls[j]) >= 1

\* ------------------------------------------------------------------------
\* Schema version normalization: Transform
\* ------------------------------------------------------------------------

\* the values of a schema's $schema field: the two spellings of draft-07,
\* draft-2020-12, another older draft, none
Draft07Hash == "http://json-schema.org/draft-07/schema#"
Draft07 == "http://json-schema.org/draft-07/schema"
Draft2020 == "https://json-schema.org/draft/2020-12/schema"
Draft04 == "http://json-schema.org/draft-04/schema#"
Markers == {Draft07Hash, Draft07, Draft2020, Draft04, ""}

\* a *jsonschema.Schema is <<>> (nil) or <<s>>; so is a map of schemas. Of
\* the fields of a Schema: the marker, the three Transform follows, and two
\* it does not (a plain one, Type, and one holding a schema, Not)
NilSchema == <<>>
SchemaOf(marker, type, properties, items, additional, not) ==
    << [Schema |-> marker, Type |-> type, Properties |-> properties,
        Items |-> items, AdditionalProperties |-> additional, Not |-> not] >>

\* schemas without nested schemas, their Properties nil or empty
LeafSchemas ==
    {SchemaOf(mk, "string", pr, NilSchema, NilSchema, NilSchema) :
        mk \in Markers, pr \in {<<>>, <<EmptyMap>>}}

\* how deep the schemas built go
MaxSchemaDepth == 3

RECURSIVE SchemaDepth(_)
SchemaDepth(p) ==
    IF p = NilSchema THEN 0
    ELSE LET s == p[1]
             below == {SchemaDepth(s.Items), SchemaDepth(s.AdditionalProperties),
                       SchemaDepth(s.Not)}
                      \cup (IF s.Properties = <<>> THEN {0}
                            ELSE {SchemaDepth(s.Properties[1][n]) :
                                     n \in DOMAIN s.Properties[1]} \cup {0})
         IN 1 + CHOOSE d \in below : \A e \in below : e <= d

\* the fields of a Schema that hold schemas
Positions == {"Properties", "Items", "AdditionalProperties", "Not"}

\* a schema with sub at one position and, if filled, a draft-07 leaf at
\* each of the others
Draft07Leaf == SchemaOf(Draft07Hash, "string", <<>>, NilSchema, NilSchema, NilSchema)
Around(sub, pos, marker, filled) ==
    LET rest == IF filled THEN Draft07Leaf ELSE NilSchema IN
       SchemaOf(marker, "object",
                IF pos = "Properties" THEN << [a |-> sub] >>
                ELSE IF filled THEN << [b |-> rest] >> ELSE <<>>,
                IF pos = "Items" THEN sub ELSE rest,
                IF pos = "AdditionalProperties" THEN sub ELSE rest,
                IF pos = "Not" THEN sub ELSE rest)

\* the rewrite of the marker
TransformMarkerHashOnly(marker) == IF marker = Draft07Hash THEN Draft2020 ELSE marker
TransformMarker(marker) ==
    IF marker = Draft07Hash \/ marker = Draft07 THEN Draft2020 ELSE marker

RECURSIVE Transform(_)
Transform(schema) ==
    IF schema = NilSchema THEN NilSchema
    ELSE LET s == schema[1] IN
       << [Schema |-> TransformMarker(s.Schema),
           Type |-> s.Type,
           Properties |->
               IF s.Properties # <<>>
                  THEN << [n \in DOMAIN s.Properties[1] |->
                             Transform(s.Properties[1][n])] >>
                  ELSE s.Properties,
           Items |-> IF s.Items # NilSchema THEN Transform(s.Items) ELSE s.Items,
           AdditionalProperties |->
               IF s.AdditionalProperties # NilSchema
                  THEN Transform(s.AdditionalProperties)
                  ELSE s.AdditionalProperties,
           Not |-> s.Not] >>

\* an upstream server's schema: nil or a leaf ...
SchemaLeaf ==
    /\ tpc = "build"
    /\ tin = NilSchema
    /\ tin' \in LeafSchemas
    /\ UNCHANGED <<tpc, tout>>
    /\ UNCHANGED notSchVars

\* ... or a schema around one
SchemaAround ==
    /\ tpc = "build"
    /\ SchemaDepth(tin) < MaxSchemaDepth
    /\ \E pos \in Positions, marker \in {"", Draft07, Draft2020}, filled \in BOOLEAN :
          tin' = Around(tin, pos, marker, filled)
    /\ UNCHANGED <<tpc, tout>>
    /\ UNCHANGED notSchVars

TransformCall ==
    /\ tpc = "build"
    /\ tout' = Transform(tin)
    /\ tpc' = "done"
    /\ UNCHANGED tin
    /\ UNCHANGED notSchVars

SchNext == SchemaLeaf \/ SchemaAround \/ TransformCall

SchSpec == Init /\ [][SchNext]_vars

\* the older draft's identifier, and the modern one
OlderDraft == {Draft07Hash, Draft07}
ModernDraft == Draft2020

\* out is in with the marker rewritten here and below Properties, Items and
\* AdditionalProperties, and with nothing else changed
RECURSIVE Normalized(_, _)
Normalized(in, out) ==
    IF in = NilSchema THEN out = NilSchema
    ELSE /\ out # NilSchema
         /\ LET s == in[1]
                r == out[1]
            IN /\ r.Schema = (IF s.Schema \in OlderDraft THEN ModernDraft ELSE s.Schema)
               /\ r.Type = s.Type
               /\ r.Not = s.Not
               /\ (s.Properties = <<>>) = (r.Properties = <<>>)
               /\ s.Properties # <<>> =>
                     /\ DOMAIN r.Properties[1] = DOMAIN s.Properties[1]
                     /\ \A n \in DOMAIN s.Properties[1] :
                           Normalized(s.Properties[1][n], r.Properties[1][n])
               /\ Normalized(s.Items, r.Items)
               /\ Normalized(s.AdditionalProperties, r.AdditionalProperties)

\* C20: Transform returns the schema it was given with the draft-07 marker
\* rewritten to the draft-2020-12 one at the top level and, recursively,
\* in the schemas under properties, items and additionalProperties, and
\* with every other field, at every level, as it was.
C20_MarkerRewrittenRestUntouched ==
    tpc = "done" => Normalized(tin, tout)

\* a schema whose items schema has a draft-07 property and a draft-07 not
\* has been transformed: the property's marker is rewritten, not's is kept
C20_Witness ==
    /\ tpc = "done"
    /\ tin # NilSchema /\ tin[1].Schema = Draft07
    /\ tin[1].Items # NilSchema
    /\ tin[1].Items[1].Properties # <<>>
    /\ "b" \in DOMAIN tin[1].Items[1].Properties[1]
    /\ tin[1].Items[1].Properties[1]["b"][1].Schema = Draft07Hash
    /\ tin[1].Items[1].Not # NilSchema
    /\ tout[1].Schema = Draft2020
    /\ tout[1].Items[1].Properties[1]["b"][1].Schema = Draft2020
    /\ tout[1].Items[1].Not[1].Schema = Draft07Hash

\* ------------------------------------------------------------------------
\* Errors and who hears of them
\* ------------------------------------------------------------------------

\* the servers this Start connected whose discoverTools failed: connected by
\* this Start (attempted, not failed) and without a tool list
Undiscovered(t) ==
    {s \in hist[t].attempted \ hist[t].failed : s \notin DOMAIN tools}

\* C21: no failure but one of schema transformation is absorbed: an
\* operation in which any other error occurred reports it to its caller. So
\* a Start during which a server's tool discovery failed does not return nil.
C21_OnlySchemaFailureAbsorbed ==
    [][\A t \in Threads :
          (pc[t] = "start_loop" /\ pc'[t] = "idle" /\ Undiscovered(t) # {}) =>
             ret'[t].err # "nil"]_vars

\* ------------------------------------------------------------------------
\* Proxied tools: RegisterProxiedTools
\* ------------------------------------------------------------------------

\* the proxyManager given to RegisterProxiedTools
RegProxy == [nil |-> FALSE, tools |-> RegTools]

\* the entries a configuration may have for a server
ServerConfigs ==
    {NoServerConfig,
     ServerConfig(TRUE, <<>>, <<>>),
     ServerConfig(TRUE, <<"*">>, <<>>),
     ServerConfig(FALSE, <<>>, <<>>),
     ServerConfig(FALSE, <<"create_*", "c">>, <<>>),
     ServerConfig(FALSE, <<"get_*_info", "t1">>, <<>>),
     ServerConfig(FALSE, <<>>, <<"admin_*", "t">>),
     ServerConfig(FALSE, <<>>, <<"*">>)}

\* a pattern against a name: without * the two are equal; a * stands for
\* any sequence of characters, and the whole name is matched
RECURSIVE matchPattern(_, _)
matchPattern(pattern, name) ==
    IF pattern = "" THEN name = ""
    ELSE IF Head(pattern) = "*"
       THEN \/ matchPattern(Tail(pattern), name)
            \/ name # "" /\ matchPattern(pattern, Tail(name))
    ELSE /\ name # ""
         /\ Head(name) = Head(pattern)
         /\ matchPattern(Tail(pattern), Tail(name))

\* MCPServerConfig.ShouldIncludeTool: the allow-list if there is one, else
\* the deny-list if there is one, else everything
ShouldIncludeTool(serverConfig, toolName) ==
    IF serverConfig.AllowedTools # <<>>
       THEN \E j \in DOMAIN serverConfig.AllowedTools :
               matchPattern(serverConfig.AllowedTools[j], toolName)
    ELSE IF serverConfig.HiddenTools # <<>>
       THEN \A j \in DOMAIN serverConfig.HiddenTools :
               ~matchPattern(serverConfig.HiddenTools[j], toolName)
    ELSE TRUE

\* the tools of a server that pass the filter of the inner loop
IncludedToolsAll(serverConfig, list) == {list[j] : j \in DOMAIN list}
IncludedTools(serverConfig, list) ==
    {list[j] : j \in {l \in DOMAIN list : ShouldIncludeTool(serverConfig, list[l])}}

\* fmt.Sprintf("%s__%s", serverName, tool.Name)
PrefixedName(serverName, toolName) == serverName \o "__" \o toolName

\* SafeTransform: Transform, or nil if it panics (on a schema that is a tree
\* it does not)
SafeTransform(schema) == Transform(schema)

\* the schema every upstream tool declares here
ToolInputSchema == Draft07Leaf

\* the mcp.Tool and the captured names of one mcp.AddTool
Registered(serverName, toolName) ==
    [Name |-> PrefixedName(serverName, toolName),
     InputSchema |-> SafeTransform(ToolInputSchema),
     capturedServerName |-> serverName,
     capturedToolName |-> toolName]

\* RegisterProxiedTools up to the loop: the global switch, GetAllTools
RegisterProxiedToolsCall ==
    /\ gpc = "idle"
    /\ \E cfg \in [RegServers -> ServerConfigs], ShouldHideProxiedTools \in BOOLEAN :
          /\ gcfg' = cfg
          /\ ghide' = ShouldHideProxiedTools
          /\ IF ShouldHideProxiedTools
                THEN gpc' = "done" /\ gtodo' = {}
                ELSE gpc' = "loop" /\ gtodo' = DOMAIN RegProxy.tools
    /\ greg' = {}
    /\ UNCHANGED notRegVars

\* one iteration of the loop over allTools
RegisterServerTools ==
    /\ gpc = "loop"
    /\ \E serverName \in gtodo :
          LET serverConfig == gcfg[serverName] IN
             /\ gtodo' = gtodo \ {serverName}
             /\ greg' =
                   IF ~serverConfig.Exists \/ serverConfig.Hidden THEN greg
                   ELSE greg \cup
                        {Registered(serverName, t) :
                            t \in IncludedTools(serverConfig, RegProxy.tools[serverName])}
    /\ UNCHANGED <<gpc, ghide, gcfg>>
    /\ UNCHANGED notRegVars

RegisterProxiedToolsReturn ==
    /\ gpc = "loop"
    /\ gtodo = {}
    /\ gpc' = "done"
    /\ UNCHANGED <<ghide, gcfg, gtodo, greg>>
    /\ UNCHANGED notRegVars

RegNext ==
    \/ RegisterProxiedToolsCall
    \/ RegisterServerTools
    \/ RegisterProxiedToolsReturn

RegSpec == Init /\ [][RegNext]_vars

\* the characters of a Starlark identifier
IdentStart ==
    {"a", "b", "c", "d", "e", "f", "g", "h", "i", "j", "k", "l", "m", "n", "o",
     "p", "q", "r", "s", "t", "u", "v", "w", "x", "y", "z", "_"}
IdentRest == IdentStart \cup {"0", "1", "2", "3", "4", "5", "6", "7", "8", "9"}

RECURSIVE AllIn(_, _)
AllIn(text, chars) == text = "" \/ (Head(text) \in chars /\ AllIn(Tail(text), chars))

\* can a script write this name
IsIdentifier(name) ==
    name # "" /\ Head(name) \in IdentStart /\ AllIn(Tail(name), IdentRest)

\* a script given this proxyManager can call the server's tool: its initial
\* scope has a name the script can write, bound to a namespace that has the
\* tool and forwards to the server
CallableFromScript(proxy, serverName, toolName) ==
    LET spaces == CreateServerNamespaces(proxy) IN
       \E key \in DOMAIN spaces :
          /\ IsIdentifier(key)
          /\ ForwardedNameOf(spaces[key]) = serverName
          /\ AttrExists(spaces[key], toolName)

\* the servers RegisterProxiedTools passes over whole
NotExposed(s) == ~gcfg[s].Exists \/ gcfg[s].Hidden

\* C22: no tool of a server that is hidden, or that has no entry in the
\* configuration, is registered for the agent, and every one of them can
\* still be called from a script through the bridge.
C22_HiddenNotExposedStillBridged ==
    gpc = "done" =>
       \A s \in RegServers :
          NotExposed(s) =>
             /\ \A r \in greg : r.capturedServerName # s
             /\ \A j \in DOMAIN RegTools[s] :
                   CallableFromScript(RegProxy, s, RegTools[s][j])

\* C23: every registered tool is named <server>__<tool>, and two different
\* (server, tool) pairs never get the same name.
C23_PrefixedNamesDistinct ==
    /\ \A r \in greg :
          r.Name = r.capturedServerName \o "__" \o r.capturedToolName
    /\ \A r1, r2 \in greg :
          r1.Name = r2.Name =>
             /\ r1.capturedServerName = r2.capturedServerName
             /\ r1.capturedToolName = r2.capturedToolName

\* the pieces of a pattern between its *s
RECURSIVE SplitAtStars(_)
SplitAtStars(pattern) ==
    IF pattern = "" THEN <<"">>
    ELSE LET rest == SplitAtStars(Tail(pattern)) IN
            IF Head(pattern) = "*" THEN <<"">> \o rest
            ELSE << Head(pattern) \o Head(rest) >> \o Tail(rest)

\* name is the pieces of the pattern in order, from its first character to
\* its last, with any characters at all where the pattern has a *
Matches(pattern, name) ==
    LET parts == SplitAtStars(pattern)
        k == Len(parts)
    IN IF k = 1 THEN pattern = name
       ELSE \E gaps \in [1 .. (k - 1) -> 0 .. Len(name)] :
               LET at[i \in 1 .. k] ==
                       IF i = 1 THEN 1 ELSE at[i - 1] + Len(parts[i - 1]) + gaps[i - 1]
               IN /\ at[k] + Len(parts[k]) - 1 = Len(name)
                  /\ \A i \in 1 .. k :
                        SubSeq(name, at[i], at[i] + Len(parts[i]) - 1) = parts[i]

\* is the server's tool registered
Exposed(s, t) ==
    \E r \in greg : r.capturedServerName = s /\ r.capturedToolName = t

\* C24: of a server with an allow-list, a tool is exposed exactly when its
\* name matches at least one pattern of the list; of a server with a
\* deny-list, exactly when it matches none. A pattern without * matches the
\* identical name only; in a pattern with *, each * stands for any sequence
\* of characters and the pattern covers the whole name.
ExposedByLists(s) ==
    \A j \in DOMAIN RegTools[s] :
       LET t == RegTools[s][j]
           allow == gcfg[s].AllowedTools
           deny == gcfg[s].HiddenTools
       IN /\ allow # <<>> =>
                (Exposed(s, t) <=> \E l \in DOMAIN allow : Matches(allow[l], t))
          /\ allow = <<>> /\ deny # <<>> =>
                (Exposed(s, t) <=> \A l \in DOMAIN deny : ~Matches(deny[l], t))

C25_StopDuringStartCompletes ==
    \A t \in Threads :
       (pc[t] = "stop_entry" /\ \E u \in Threads : pc[u] = "start_connecting")
          ~> (pc[t] = "idle" /\ ret[t].op = "Stop")

\* C26: whenever a Start launches and handshakes, after a Stop as well, the
\* context it does so under is not cancelled.
C26_StartUnderLiveContext ==
    \A t \in Threads : pc[t] = "start_connecting" => ~ConnectCtxDone

\* C27: a session leaves m.sessions (cleared by Stop, or replaced by a later
\* Start) only after it has been closed.
C27_NoSessionDroppedUnclosed ==
    [][\A s \in DOMAIN sessions :
          (s \notin DOMAIN sessions' \/ sessions'[s] # sessions[s]) =>
             conns'[sessions[s]].closes > 0]_vars

\* C28: while no Start or Stop is in progress, every server that has a tool
\* list in m.tools has a session in m.sessions, and that session is live.
C28_ToolsOnlyOfConnected ==
    (\A t \in Threads : pc[t] \notin WritePcs) =>
       \A s \in DOMAIN tools :
          /\ s \in DOMAIN sessions
          /\ Live(sessions[s])

\* nothing is in progress; one server is connected with its tools, the other
\* is connected with no tool list (its discovery failed)
C28_Witness ==
    /\ \A t \in Threads : pc[t] = "idle"
    /\ DOMAIN sessions = Servers
    /\ Cardinality(DOMAIN tools) = 1

\* ------------------------------------------------------------------------
\* Server names and the names of the initial scope
\* ------------------------------------------------------------------------

\* proxy managers whose servers are named alike ("a-b", "a_b"), or like what
\* the initial scope already holds ("params", "json", "len")
ScopeProxyIds == {4, 5}

\* bodies that read params, and that call a_b.t1()
ScopeScriptIds == {3, 14}

ScopeCall(i) == EngineCallWith(i, ScopeScriptIds, ScopeProxyIds)

ScopeStep(i) ==
    \/ ScopeCall(i)
    \/ EngineExpression(i)
    \/ EngineProgram(i)
    \/ EngineToolCall(i)
    \/ EngineToolReturn(i)
    \/ EngineFinish(i)
    \/ EngineReturn(i)

ScopeNext == \E i \in Slots : ScopeStep(i)

ScopeSpec == Init /\ [][ScopeNext]_vars

C30_NamespacesReplaceNothing ==
    \A i \in Slots :
       Bridged(i) =>
          /\ \A n \in UniverseNames : InitialScope(i)[n].val = UniverseValue(n)
          /\ \A n \in ModuleNames : InitialScope(i)[n].val = SModule(n)
          /\ Params(eparams[i]).k # "nil" =>
                InitialScope(i)["params"].val = ParamsDict(Params(eparams[i])).val


====
